---- MODULE Spec2Model ----
(***************************************************************************)
(* Model of modu-core: the application entry point (main), the Common      *)
(* layer start-up (comm::Main::init), the termination / signal service     *)
(* (comm::Terminate: signal-wait thread, event-processor thread, blocking  *)
(* wait, programmatic trigger, destructor) and the TOML configuration      *)
(* service (comm::Config).                                                 *)
(*                                                                         *)
(* Two state machines share the module:                                    *)
(*   Spec / FairSpec : the process (main thread + Terminate's two threads  *)
(*                     + the environment that sends signals)               *)
(*   SpecConfig      : the configuration singleton used sequentially       *)
(***************************************************************************)
EXTENDS Integers, Sequences, FiniteSets, TLC

(***************************************************************************)
(* Bounds of the model                                                     *)
(***************************************************************************)
\* calls made by the environment and the rest of the application in one run:
\* signals sent, TerminateApp calls, listener registrations by modules
MaxEnvSteps == 2
\* calls of operations of the configuration singleton in one run
MaxCfgCalls == 4
\* changes made to configuration files in one run
MaxFileWrites == 2

(***************************************************************************)
(* Signals and GetSignalName                                               *)
(***************************************************************************)
WaitedSignals == {"SIGINT", "SIGTERM", "SIGQUIT", "SIGHUP"}

TermSignals == {"SIGINT", "SIGTERM", "SIGQUIT"}

GetSignalName_Swapped(signal) ==
  CASE signal = "SIGINT"  -> "Termination request"
    [] signal = "SIGTERM" -> "Interactive attention signal"
    [] signal = "SIGHUP"  -> "Hangup"
    [] signal = "SIGQUIT" -> "Quit"
    [] OTHER              -> "Unknown signal"

GetSignalName(signal) ==
  CASE signal = "SIGINT"  -> "Interactive attention signal"
    [] signal = "SIGTERM" -> "Termination request"
    [] signal = "SIGHUP"  -> "Hangup"
    [] signal = "SIGQUIT" -> "Quit"
    [] OTHER              -> "Unknown signal"

(***************************************************************************)
(* State of the process                                                    *)
(***************************************************************************)
VARIABLES
  mainPc,                    \* position of the main thread
  procState,                 \* "running" | "exited"
  exitCode,                  \* value returned by main (0 until main returns)
  calls,                     \* layer calls made by main, in order
  commInitOk, infrInitOk,    \* "pending" | "ok" | "fail"
  deinitFailed,              \* some Deinit returned an error code
  sigmaskBlocked,            \* the four signals are blocked in the process mask
  pending,                   \* set of pending (blocked, undelivered) signals
  envSteps,                  \* number of environment calls so far
  sigPc, curSignal,          \* signal-wait thread: position, local `signal`
  evPc, evEvent,             \* event-processor thread: position, local `event`
  listeners_copy, evIdx,     \* event-processor thread: locals of the dispatch
  m_event_queue,
  m_stop_event_processor,
  m_terminate,               \* count of the binary semaphore
  m_wait_ms,
  m_terminate_reason,
  m_config_reload_listeners,
  sigJoinable, evJoinable,   \* m_signal_wait / m_event_processor joinable()
  waitResult,                \* value returned by WaitForTermination ("<none>" before)
  hupReceived,               \* number of SIGHUPs returned by sigwait
  regHup,                    \* per listener: hupReceived when it was registered
  invoked,                   \* <<listener index, reload number>> -> invocations
  termSignal,                \* terminating signal returned by sigwait, or "none"
  termAppCalled,             \* TerminateApp has been called
  secondSigintEarly          \* a SIGINT was sent after sigwait returned a first
                             \* SIGINT and before the process exited

procVars == <<mainPc, procState, exitCode, calls, commInitOk, infrInitOk,
              deinitFailed, sigmaskBlocked, pending, envSteps, sigPc, curSignal,
              evPc, evEvent, listeners_copy, evIdx, m_event_queue,
              m_stop_event_processor, m_terminate, m_wait_ms,
              m_terminate_reason, m_config_reload_listeners, sigJoinable,
              evJoinable, waitResult, hupReceived,
              regHup, invoked, termSignal, termAppCalled, secondSigintEarly>>

(***************************************************************************)
(* State of the configuration singleton (comm::Config) and of the files    *)
(***************************************************************************)
VARIABLES
  m_initialized,
  m_app_name,
  m_config_paths,
  m_data,
  m_overrides,               \* path string -> raw value string
  m_reload_listeners,
  files,                     \* file system: path -> content
  cfgOp,                     \* the last operation called on the singleton
  cfgRet,                    \* and the error code it returned
  cfgNotified,               \* listeners it invoked, in order of invocation
  cfgPre,                    \* the singleton's state when Reload was called
  cfgLastSet,                \* path string -> value of the last SetOverride
  cfgCalls, cfgWrites        \* number of calls / of file changes so far

(***************************************************************************)
(* Command line of the process, result of the last typed read, and state   *)
(* of a semaphore of comm_os with the threads that use it                  *)
(***************************************************************************)
VARIABLES
  argv,                      \* argv[1 .. argc - 1]
  got,                       \* what the last Get<InfrMainConfig> returned
  m_counter,
  semPc,                     \* thread -> its position in Wait
  semInitial,                \* the count the semaphore was constructed with
  semSignals,                \* number of Signal() calls made
  semReturns,                \* number of Wait calls that took a unit
  semResult                  \* thread -> what its last Wait returned

semVars == <<m_counter, semPc, semInitial, semSignals, semReturns, semResult>>

(***************************************************************************)
(* A call of drv::FindAvailablePort and the sockets it meets               *)
(***************************************************************************)
VARIABLES
  port_number,               \* the argument of the call
  port,                      \* the loop's uint16_t counter
  bindable,                  \* ports on which bind() returns 0
  socket_ok,                 \* FALSE: every socket() call fails
  fapPc,                     \* "idle", "loop" or "returned"
  fapRet                     \* the value returned

portVars == <<port_number, port, bindable, socket_ok, fapPc, fapRet>>

(***************************************************************************)
(* A standalone comm::Config object (comm_config.cpp)                      *)
(***************************************************************************)
VARIABLES
  impl_data,                 \* m_impl->data
  stdCalls                   \* the calls made on the object, with results

stdVars == <<impl_data, stdCalls>>

(***************************************************************************)
(* The singleton infr::InfrConfig (infr_config.cpp)                        *)
(***************************************************************************)
VARIABLES
  infr_initialized,          \* InfrConfig::m_initialized
  m_config,                  \* the cached InfrMainConfig
  infrInitCalls,             \* number of calls of InfrConfig::Initialize
  onConfigReloads,           \* OnConfigReload calls made by the last Reload
  m_listeners,               \* InfrConfig: the registered reload listeners
  infrSeen                   \* what Get() gave each listener in the last Reload

infrVars == <<infr_initialized, m_config, infrInitCalls, onConfigReloads,
              m_listeners, infrSeen>>

\* the environment the user configuration path is resolved from, and the
\* path each of the two Config classes resolved
VARIABLES
  env_XDG_CONFIG_HOME,       \* getenv("XDG_CONFIG_HOME"): EnvUnset or a string
  env_HOME,                  \* getenv("HOME"): EnvUnset or a string
  pw_dir,                    \* getpwuid(getuid())->pw_dir: EnvUnset or a string
  candidate_user_path,       \* service: candidate_paths[1] of Initialize
  user_config                \* standalone: user_config of load_xdg_hierarchy

xdgVars == <<env_XDG_CONFIG_HOME, env_HOME, pw_dir, candidate_user_path,
             user_config>>

otherVars == <<portVars, stdVars, infrVars, xdgVars>>

utilVars == <<argv, got, semVars, otherVars>>

cfgObj == <<m_initialized, m_app_name, m_config_paths, m_data, m_overrides,
            m_reload_listeners>>

cfgGhost == <<cfgOp, cfgRet, cfgNotified, cfgPre>>

cfgVars ==
  <<cfgObj, files, cfgGhost, cfgLastSet, cfgCalls, cfgWrites, utilVars>>

vars == <<procVars, cfgVars>>

ConfigReload(k) == [type |-> "ConfigReload", seq |-> k]
Shutdown == [type |-> "Shutdown", seq |-> 0]

Callbacks == {"cbReturns", "cbThrows"}

ListenerSlots == 1 .. (MaxEnvSteps + 1)

InitProc ==
  /\ mainPc = "comm_config"
  /\ procState = "running"
  /\ exitCode = 0
  /\ calls = <<>>
  /\ commInitOk = "pending"
  /\ infrInitOk = "pending"
  /\ deinitFailed = FALSE
  /\ sigmaskBlocked = FALSE
  /\ pending = {}
  /\ envSteps = 0
  /\ sigPc = "none"
  /\ curSignal = "none"
  /\ evPc = "none"
  /\ evEvent = Shutdown
  /\ listeners_copy = <<>>
  /\ evIdx = 1
  /\ m_event_queue = <<>>
  /\ m_stop_event_processor = FALSE
  /\ m_terminate = 0
  /\ m_wait_ms = 0
  /\ m_terminate_reason = ""
  /\ m_config_reload_listeners = <<>>
  /\ sigJoinable = FALSE
  /\ evJoinable = FALSE
  /\ waitResult = "<none>"
  /\ hupReceived = 0
  /\ regHup = <<>>
  /\ invoked = [p \in ListenerSlots \X (1 .. MaxEnvSteps) |-> 0]
  /\ termSignal = "none"
  /\ termAppCalled = FALSE
  /\ secondSigintEarly = FALSE

(***************************************************************************)
(* Frames                                                                  *)
(***************************************************************************)
mainLocal == <<mainPc, exitCode, calls, commInitOk, infrInitOk, deinitFailed>>
sigLocal == <<sigPc, curSignal>>
evLocal == <<evPc, evEvent, listeners_copy, evIdx>>
envVars == <<pending, envSteps, termAppCalled, secondSigintEarly>>
ghostVars == <<hupReceived, regHup, invoked, termSignal>>
termObj == <<m_event_queue, m_stop_event_processor, m_terminate, m_wait_ms,
             m_terminate_reason, m_config_reload_listeners, sigJoinable,
             evJoinable>>

(***************************************************************************)
(* main(), comm::Main::init and Terminate::Start                           *)
(***************************************************************************)
\* main: comm::Main::Init begins; Config::Initialize + --set overrides.
\* A Config failure makes Init return the error before Terminate is touched.
CommInitConfig(ok) ==
  /\ mainPc = "comm_config"
  /\ calls' = Append(calls, "CommInit")
  /\ IF ok
       THEN /\ mainPc' = "start_mask"
            /\ UNCHANGED commInitOk
       ELSE /\ mainPc' = "return1"
            /\ commInitOk' = "fail"
  /\ UNCHANGED cfgVars
  /\ UNCHANGED <<procState, exitCode, infrInitOk, deinitFailed, sigmaskBlocked,
                 sigLocal, evLocal, envVars, ghostVars, termObj, waitResult>>

\* Terminate::Start: sigprocmask(SIG_BLOCK)
StartMask(ok) ==
  /\ mainPc = "start_mask"
  /\ IF ok
       THEN /\ sigmaskBlocked' = TRUE
            /\ mainPc' = "start_ev"
            /\ UNCHANGED commInitOk
       ELSE /\ mainPc' = "return1"
            /\ commInitOk' = "fail"
            /\ UNCHANGED sigmaskBlocked
  /\ UNCHANGED cfgVars
  /\ UNCHANGED <<procState, exitCode, calls, infrInitOk, deinitFailed,
                 sigLocal, evLocal, envVars, ghostVars, termObj, waitResult>>

\* Terminate::Start: spawn the event-processor thread (or roll back the mask)
StartEventProcessor(ok) ==
  /\ mainPc = "start_ev"
  /\ IF ok
       THEN /\ evPc' = "outer"
            /\ evJoinable' = TRUE
            /\ mainPc' = "start_sig"
            /\ UNCHANGED <<commInitOk, sigmaskBlocked>>
       ELSE /\ sigmaskBlocked' = FALSE
            /\ mainPc' = "return1"
            /\ commInitOk' = "fail"
            /\ UNCHANGED <<evPc, evJoinable>>
  /\ UNCHANGED cfgVars
  /\ UNCHANGED <<procState, exitCode, calls, infrInitOk, deinitFailed,
                 sigLocal, evEvent, listeners_copy, evIdx, envVars, ghostVars,
                 m_event_queue, m_stop_event_processor, m_terminate, m_wait_ms,
                 m_terminate_reason, m_config_reload_listeners, sigJoinable,
                 waitResult>>

\* Terminate::Start: spawn the signal-wait thread, or begin the rollback
\* (stop flag + Shutdown event under m_event_mutex, notify_one)
StartSignalWait(ok) ==
  /\ mainPc = "start_sig"
  /\ IF ok
       THEN /\ sigPc' = "start"
            /\ sigJoinable' = TRUE
            /\ mainPc' = "register"
            /\ UNCHANGED <<m_stop_event_processor, m_event_queue>>
       ELSE /\ m_stop_event_processor' = TRUE
            /\ m_event_queue' = Append(m_event_queue, Shutdown)
            /\ mainPc' = "start_rb_join"
            /\ UNCHANGED <<sigPc, sigJoinable>>
  /\ UNCHANGED cfgVars
  /\ UNCHANGED <<procState, exitCode, calls, commInitOk, infrInitOk,
                 deinitFailed, sigmaskBlocked, curSignal, evLocal, envVars,
                 ghostVars, m_terminate, m_wait_ms, m_terminate_reason,
                 m_config_reload_listeners, evJoinable, waitResult>>

\* Terminate::Start rollback that restores the mask without joining
StartRollbackJoin_NoJoin ==
  /\ mainPc = "start_rb_join"
  /\ evJoinable' = FALSE
  /\ sigmaskBlocked' = FALSE
  /\ commInitOk' = "fail"
  /\ mainPc' = "return1"
  /\ UNCHANGED cfgVars
  /\ UNCHANGED <<procState, exitCode, calls, infrInitOk, deinitFailed,
                 sigLocal, evLocal, envVars, ghostVars, m_event_queue,
                 m_stop_event_processor, m_terminate, m_wait_ms,
                 m_terminate_reason, m_config_reload_listeners, sigJoinable,
                 waitResult>>

\* Terminate::Start rollback: join the event processor, restore the mask
StartRollbackJoin ==
  /\ mainPc = "start_rb_join"
  /\ evPc = "done"
  /\ evJoinable' = FALSE
  /\ sigmaskBlocked' = FALSE
  /\ commInitOk' = "fail"
  /\ mainPc' = "return1"
  /\ UNCHANGED cfgVars
  /\ UNCHANGED <<procState, exitCode, calls, infrInitOk, deinitFailed,
                 sigLocal, evLocal, envVars, ghostVars, m_event_queue,
                 m_stop_event_processor, m_terminate, m_wait_ms,
                 m_terminate_reason, m_config_reload_listeners, sigJoinable,
                 waitResult>>

\* comm::Main::init: register the SIGHUP -> Config::Reload bridge, return success
RegisterBridge ==
  /\ mainPc = "register"
  /\ m_config_reload_listeners' = Append(m_config_reload_listeners, "bridge")
  /\ regHup' = Append(regHup, hupReceived)
  /\ commInitOk' = "ok"
  /\ mainPc' = "infr_init"
  /\ UNCHANGED cfgVars
  /\ UNCHANGED <<procState, exitCode, calls, infrInitOk, deinitFailed,
                 sigmaskBlocked, sigLocal, evLocal, envVars, hupReceived,
                 invoked, termSignal, m_event_queue, m_stop_event_processor,
                 m_terminate, m_wait_ms, m_terminate_reason, sigJoinable,
                 evJoinable, waitResult>>

\* main: infr::Main::Init
InfrInit(ok) ==
  /\ mainPc = "infr_init"
  /\ calls' = Append(calls, "InfrInit")
  /\ infrInitOk' = IF ok THEN "ok" ELSE "fail"
  /\ mainPc' = IF ok THEN "wait_call" ELSE "return1"
  /\ UNCHANGED cfgVars
  /\ UNCHANGED <<procState, exitCode, commInitOk, deinitFailed, sigmaskBlocked,
                 sigLocal, evLocal, envVars, ghostVars, termObj, waitResult>>

(***************************************************************************)
(* Terminate::WaitForTermination (called by main)                          *)
(***************************************************************************)
\* main calls Terminate::Instance().WaitForTermination()
WaitCall ==
  /\ mainPc = "wait_call"
  /\ calls' = Append(calls, "Wait")
  /\ mainPc' = "wait_acquire"
  /\ UNCHANGED cfgVars
  /\ UNCHANGED <<procState, exitCode, commInitOk, infrInitOk, deinitFailed,
                 sigmaskBlocked, sigLocal, evLocal, envVars, ghostVars,
                 termObj, waitResult>>

\* m_terminate.acquire()
WaitAcquire ==
  /\ mainPc = "wait_acquire"
  /\ m_terminate > 0
  /\ m_terminate' = m_terminate - 1
  /\ mainPc' = "wait_sleep"
  /\ UNCHANGED cfgVars
  /\ UNCHANGED <<procState, exitCode, calls, commInitOk, infrInitOk, deinitFailed,
                 sigmaskBlocked, sigLocal, evLocal, envVars, ghostVars,
                 m_event_queue, m_stop_event_processor, m_wait_ms,
                 m_terminate_reason, m_config_reload_listeners, sigJoinable,
                 evJoinable, waitResult>>

\* optional grace delay (sleep_for(m_wait_ms) when m_wait_ms > 0)
WaitSleep ==
  /\ mainPc = "wait_sleep"
  /\ mainPc' = "wait_join"
  /\ UNCHANGED cfgVars
  /\ UNCHANGED <<procState, exitCode, calls, commInitOk, infrInitOk,
                 deinitFailed, sigmaskBlocked, sigLocal, evLocal, envVars,
                 ghostVars, termObj, waitResult>>

\* the reason is returned without the join
WaitJoin_NoJoin ==
  /\ mainPc = "wait_join"
  /\ waitResult' = m_terminate_reason
  /\ mainPc' = "infr_deinit"
  /\ UNCHANGED cfgVars
  /\ UNCHANGED <<procState, exitCode, calls, commInitOk, infrInitOk,
                 deinitFailed, sigmaskBlocked, sigLocal, evLocal, envVars,
                 ghostVars, m_event_queue, m_stop_event_processor, m_terminate,
                 m_wait_ms, m_terminate_reason, m_config_reload_listeners,
                 sigJoinable, evJoinable>>

\* m_signal_wait->join(); return m_terminate_reason
WaitJoin ==
  /\ mainPc = "wait_join"
  /\ sigPc = "done"
  /\ sigJoinable' = FALSE
  /\ waitResult' = m_terminate_reason
  /\ mainPc' = "infr_deinit"
  /\ UNCHANGED cfgVars
  /\ UNCHANGED <<procState, exitCode, calls, commInitOk, infrInitOk,
                 deinitFailed, sigmaskBlocked, sigLocal, evLocal, envVars,
                 ghostVars, m_event_queue, m_stop_event_processor, m_terminate,
                 m_wait_ms, m_terminate_reason, m_config_reload_listeners,
                 evJoinable>>

(***************************************************************************)
(* main: deinitialisation and return                                       *)
(***************************************************************************)
\* the return code of Deinit is an input of main: main only logs it
InfrDeinit_ReturnsOnFail(ok) ==
  /\ mainPc = "infr_deinit"
  /\ calls' = Append(calls, "InfrDeinit")
  /\ deinitFailed' = (deinitFailed \/ ~ok)
  /\ mainPc' = IF ok THEN "comm_deinit" ELSE "return1"
  /\ UNCHANGED cfgVars
  /\ UNCHANGED <<procState, exitCode, commInitOk, infrInitOk, sigmaskBlocked,
                 sigLocal, evLocal, envVars, ghostVars, termObj, waitResult>>

InfrDeinit(ok) ==
  /\ mainPc = "infr_deinit"
  /\ calls' = Append(calls, "InfrDeinit")
  /\ deinitFailed' = (deinitFailed \/ ~ok)
  /\ mainPc' = "comm_deinit"
  /\ UNCHANGED cfgVars
  /\ UNCHANGED <<procState, exitCode, commInitOk, infrInitOk, sigmaskBlocked,
                 sigLocal, evLocal, envVars, ghostVars, termObj, waitResult>>

CommDeinit(ok) ==
  /\ mainPc = "comm_deinit"
  /\ calls' = Append(calls, "CommDeinit")
  /\ deinitFailed' = (deinitFailed \/ ~ok)
  /\ mainPc' = "return0"
  /\ UNCHANGED cfgVars
  /\ UNCHANGED <<procState, exitCode, commInitOk, infrInitOk, sigmaskBlocked,
                 sigLocal, evLocal, envVars, ghostVars, termObj, waitResult>>

MainReturn ==
  /\ mainPc \in {"return0", "return1"}
  /\ exitCode' = IF mainPc = "return1" THEN 1 ELSE 0
  /\ mainPc' = "dtor_ev"
  /\ UNCHANGED cfgVars
  /\ UNCHANGED <<procState, calls, commInitOk, infrInitOk, deinitFailed,
                 sigmaskBlocked, sigLocal, evLocal, envVars, ghostVars,
                 termObj, waitResult>>

(***************************************************************************)
(* Terminate::~Terminate (static destruction after main returned)          *)
(***************************************************************************)
DtorStopEventProcessor ==
  /\ mainPc = "dtor_ev"
  /\ IF evJoinable
       THEN /\ m_stop_event_processor' = TRUE
            /\ m_event_queue' = Append(m_event_queue, Shutdown)
            /\ mainPc' = "dtor_ev_join"
       ELSE /\ mainPc' = "dtor_sig"
            /\ UNCHANGED <<m_stop_event_processor, m_event_queue>>
  /\ UNCHANGED cfgVars
  /\ UNCHANGED <<procState, exitCode, calls, commInitOk, infrInitOk,
                 deinitFailed, sigmaskBlocked, sigLocal, evLocal, envVars,
                 ghostVars, m_terminate, m_wait_ms, m_terminate_reason,
                 m_config_reload_listeners, sigJoinable, evJoinable,
                 waitResult>>

DtorJoinEventProcessor ==
  /\ mainPc = "dtor_ev_join"
  /\ evPc = "done"
  /\ evJoinable' = FALSE
  /\ mainPc' = "dtor_sig"
  /\ UNCHANGED cfgVars
  /\ UNCHANGED <<procState, exitCode, calls, commInitOk, infrInitOk,
                 deinitFailed, sigmaskBlocked, sigLocal, evLocal, envVars,
                 ghostVars, m_event_queue, m_stop_event_processor, m_terminate,
                 m_wait_ms, m_terminate_reason, m_config_reload_listeners,
                 sigJoinable, waitResult>>

DtorReleaseSignalWait ==
  /\ mainPc = "dtor_sig"
  /\ IF sigJoinable
       THEN /\ m_terminate' = m_terminate + 1
            /\ mainPc' = "dtor_sig_join"
            /\ UNCHANGED procState
       ELSE /\ mainPc' = "exited"
            /\ procState' = "exited"
            /\ UNCHANGED m_terminate
  /\ UNCHANGED cfgVars
  /\ UNCHANGED <<exitCode, calls, commInitOk, infrInitOk, deinitFailed,
                 sigmaskBlocked, sigLocal, evLocal, envVars, ghostVars,
                 m_event_queue, m_stop_event_processor, m_wait_ms,
                 m_terminate_reason, m_config_reload_listeners, sigJoinable,
                 evJoinable, waitResult>>

DtorJoinSignalWait ==
  /\ mainPc = "dtor_sig_join"
  /\ sigPc = "done"
  /\ sigJoinable' = FALSE
  /\ mainPc' = "exited"
  /\ procState' = "exited"
  /\ UNCHANGED cfgVars
  /\ UNCHANGED <<exitCode, calls, commInitOk, infrInitOk, deinitFailed,
                 sigmaskBlocked, sigLocal, evLocal, envVars, ghostVars,
                 m_event_queue, m_stop_event_processor, m_terminate, m_wait_ms,
                 m_terminate_reason, m_config_reload_listeners, evJoinable,
                 waitResult>>

MainStep ==
  \/ \E ok \in BOOLEAN : CommInitConfig(ok)
  \/ \E ok \in BOOLEAN : StartMask(ok)
  \/ \E ok \in BOOLEAN : StartEventProcessor(ok)
  \/ \E ok \in BOOLEAN : StartSignalWait(ok)
  \/ StartRollbackJoin
  \/ RegisterBridge
  \/ \E ok \in BOOLEAN : InfrInit(ok)
  \/ WaitCall
  \/ WaitAcquire
  \/ WaitSleep
  \/ WaitJoin
  \/ \E ok \in BOOLEAN : InfrDeinit(ok)
  \/ \E ok \in BOOLEAN : CommDeinit(ok)
  \/ MainReturn
  \/ DtorStopEventProcessor
  \/ DtorJoinEventProcessor
  \/ DtorReleaseSignalWait
  \/ DtorJoinSignalWait

(***************************************************************************)
(* Terminate::WaitForTerminateSignal (the signal-wait thread)              *)
(***************************************************************************)
\* sd_notify(READY=1), then enter the loop
SigStart ==
  /\ sigPc = "start"
  /\ sigPc' = "sigwait"
  /\ UNCHANGED cfgVars
  /\ UNCHANGED <<mainLocal, procState, sigmaskBlocked, curSignal, evLocal,
                 envVars, ghostVars, termObj, waitResult>>

\* sigwait() returns one of the pending signals
SigWaitReturns(s) ==
  /\ sigPc = "sigwait"
  /\ s \in pending
  /\ pending' = pending \ {s}
  /\ curSignal' = s
  /\ IF s = "SIGHUP"
       THEN /\ sigPc' = "hup_notify"
            /\ hupReceived' = hupReceived + 1
            /\ UNCHANGED termSignal
       ELSE /\ sigPc' = "stopping"
            /\ termSignal' = s
            /\ UNCHANGED hupReceived
  /\ UNCHANGED cfgVars
  /\ UNCHANGED <<mainLocal, procState, sigmaskBlocked, evLocal, envSteps,
                 termAppCalled, secondSigintEarly, regHup, invoked, termObj,
                 waitResult>>

\* sigwait() returns an error code: `signal` keeps its initial 0 and the loop
\* is left by `break`
SigWaitFails ==
  /\ sigPc = "sigwait"
  /\ curSignal' = "none"
  /\ sigPc' = "release"
  /\ UNCHANGED cfgVars
  /\ UNCHANGED <<mainLocal, procState, sigmaskBlocked, evLocal,
                 envVars, ghostVars, termObj, waitResult>>

\* SIGHUP: sd_notify(RELOADING=1)
SigHupNotify ==
  /\ sigPc = "hup_notify"
  /\ sigPc' = "hup_push"
  /\ UNCHANGED cfgVars
  /\ UNCHANGED <<mainLocal, procState, sigmaskBlocked, curSignal, evLocal,
                 envVars, ghostVars, termObj, waitResult>>

\* SIGHUP: push ConfigReload under m_event_mutex, notify_one, continue
SigHupPush ==
  /\ sigPc = "hup_push"
  /\ m_event_queue' = Append(m_event_queue, ConfigReload(hupReceived))
  /\ sigPc' = "sigwait"
  /\ UNCHANGED cfgVars
  /\ UNCHANGED <<mainLocal, procState, sigmaskBlocked, curSignal, evLocal,
                 envVars, ghostVars, m_stop_event_processor, m_terminate,
                 m_wait_ms, m_terminate_reason, m_config_reload_listeners,
                 sigJoinable, evJoinable, waitResult>>

\* termination signal: should_terminate = true; sd_notify(STOPPING=1)
SigStopping ==
  /\ sigPc = "stopping"
  /\ sigPc' = "reason"
  /\ UNCHANGED cfgVars
  /\ UNCHANGED <<mainLocal, procState, sigmaskBlocked, curSignal, evLocal,
                 envVars, ghostVars, termObj, waitResult>>

\* m_terminate_reason = GetSignalName(signal); the loop condition ends the loop
SigReason ==
  /\ sigPc = "reason"
  /\ m_terminate_reason' = GetSignalName(curSignal)
  /\ sigPc' = "release"
  /\ UNCHANGED cfgVars
  /\ UNCHANGED <<mainLocal, procState, sigmaskBlocked, curSignal, evLocal,
                 envVars, ghostVars, m_event_queue, m_stop_event_processor,
                 m_terminate, m_wait_ms, m_config_reload_listeners,
                 sigJoinable, evJoinable, waitResult>>

\* m_terminate.release(); the thread function returns
SigRelease ==
  /\ sigPc = "release"
  /\ m_terminate' = m_terminate + 1
  /\ sigPc' = "done"
  /\ UNCHANGED cfgVars
  /\ UNCHANGED <<mainLocal, procState, sigmaskBlocked, curSignal, evLocal,
                 envVars, ghostVars, m_event_queue, m_stop_event_processor,
                 m_wait_ms, m_terminate_reason, m_config_reload_listeners,
                 sigJoinable, evJoinable, waitResult>>

SigStep ==
  \/ SigStart
  \/ \E s \in WaitedSignals : SigWaitReturns(s)
  \/ SigHupNotify
  \/ SigHupPush
  \/ SigStopping
  \/ SigReason
  \/ SigRelease

(***************************************************************************)
(* Terminate::ProcessEvents (the event-processor thread)                   *)
(***************************************************************************)
\* while (!m_stop_event_processor): the flag is read without m_event_mutex
\* while the writers set it under the mutex; a racing read yields the old or
\* the new value.
EvOuterCheck(seen) ==
  /\ evPc = "outer"
  /\ seen \in {m_stop_event_processor, FALSE}
  /\ evPc' = IF seen THEN "done" ELSE "wait"
  /\ UNCHANGED cfgVars
  /\ UNCHANGED <<mainLocal, procState, sigmaskBlocked, sigLocal, evEvent,
                 listeners_copy, evIdx, envVars, ghostVars, termObj,
                 waitResult>>

\* the newest event is taken instead of the oldest
EvTakeNext_Newest ==
  IF m_event_queue # <<>>
    THEN /\ evEvent' = m_event_queue[Len(m_event_queue)]
         /\ m_event_queue' = SubSeq(m_event_queue, 1, Len(m_event_queue) - 1)
         /\ evPc' = "handle"
    ELSE /\ evPc' = "outer"
         /\ UNCHANGED <<evEvent, m_event_queue>>

\* Next event under m_event_mutex: pop the front, or leave the inner loop
EvTakeNext ==
  IF m_event_queue # <<>>
    THEN /\ evEvent' = Head(m_event_queue)
         /\ m_event_queue' = Tail(m_event_queue)
         /\ evPc' = "handle"
    ELSE /\ evPc' = "outer"
         /\ UNCHANGED <<evEvent, m_event_queue>>

\* unique_lock + m_event_cv.wait(lock, pred) + first test of the inner loop
EvWait ==
  /\ evPc = "wait"
  /\ (m_event_queue # <<>> \/ m_stop_event_processor)
  /\ EvTakeNext
  /\ UNCHANGED cfgVars
  /\ UNCHANGED <<mainLocal, procState, sigmaskBlocked, sigLocal,
                 listeners_copy, evIdx, envVars, ghostVars,
                 m_stop_event_processor, m_terminate, m_wait_ms,
                 m_terminate_reason, m_config_reload_listeners, sigJoinable,
                 evJoinable, waitResult>>

\* the copy is taken for the first reload only
EvHandle_CopyOnce ==
  /\ evPc = "handle"
  /\ IF evEvent.type = "ConfigReload"
       THEN /\ listeners_copy' = IF listeners_copy = <<>>
                                   THEN m_config_reload_listeners
                                   ELSE listeners_copy
            /\ evIdx' = 1
            /\ evPc' = "invoke"
       ELSE /\ evPc' = "done"
            /\ UNCHANGED <<listeners_copy, evIdx>>
  /\ UNCHANGED cfgVars
  /\ UNCHANGED <<mainLocal, procState, sigmaskBlocked, sigLocal, evEvent,
                 envVars, ghostVars, termObj, waitResult>>

\* switch (event): ConfigReload copies the listeners under m_listeners_mutex,
\* Shutdown returns from the thread function
EvHandle ==
  /\ evPc = "handle"
  /\ IF evEvent.type = "ConfigReload"
       THEN /\ listeners_copy' = m_config_reload_listeners
            /\ evIdx' = 1
            /\ evPc' = "invoke"
       ELSE /\ evPc' = "done"
            /\ UNCHANGED <<listeners_copy, evIdx>>
  /\ UNCHANGED cfgVars
  /\ UNCHANGED <<mainLocal, procState, sigmaskBlocked, sigLocal, evEvent,
                 envVars, ghostVars, termObj, waitResult>>

\* the exception of a listener is not caught: it ends the thread function
EvInvoke_ThrowEnds ==
  /\ evPc = "invoke"
  /\ evIdx <= Len(listeners_copy)
  /\ invoked' = [invoked EXCEPT ![<<evIdx, evEvent.seq>>] = @ + 1]
  /\ evIdx' = evIdx + 1
  /\ evPc' = IF listeners_copy[evIdx] = "cbThrows" THEN "done" ELSE evPc
  /\ UNCHANGED cfgVars
  /\ UNCHANGED <<mainLocal, procState, sigmaskBlocked, sigLocal, evEvent,
                 listeners_copy, envVars, hupReceived, regHup, termSignal,
                 termObj, waitResult>>

\* for (listener : listeners_copy) try { listener(); } catch ... : one call.
\* A throwing callback is caught here, so both kinds continue with the next.
EvInvoke ==
  /\ evPc = "invoke"
  /\ evIdx <= Len(listeners_copy)
  /\ invoked' = [invoked EXCEPT ![<<evIdx, evEvent.seq>>] = @ + 1]
  /\ evIdx' = evIdx + 1
  /\ UNCHANGED cfgVars
  /\ UNCHANGED <<mainLocal, procState, sigmaskBlocked, sigLocal, evPc, evEvent,
                 listeners_copy, envVars, hupReceived, regHup, termSignal,
                 termObj, waitResult>>

\* all listeners of the copy have run: sd_notify(READY=1)
EvReady ==
  /\ evPc = "invoke"
  /\ evIdx > Len(listeners_copy)
  /\ evPc' = "relock"
  /\ UNCHANGED cfgVars
  /\ UNCHANGED <<mainLocal, procState, sigmaskBlocked, sigLocal, evEvent,
                 listeners_copy, evIdx, envVars, ghostVars, termObj,
                 waitResult>>

\* lock.lock(); next test of the inner loop
EvRelock ==
  /\ evPc = "relock"
  /\ EvTakeNext
  /\ UNCHANGED cfgVars
  /\ UNCHANGED <<mainLocal, procState, sigmaskBlocked, sigLocal,
                 listeners_copy, evIdx, envVars, ghostVars,
                 m_stop_event_processor, m_terminate, m_wait_ms,
                 m_terminate_reason, m_config_reload_listeners, sigJoinable,
                 evJoinable, waitResult>>

EvStep ==
  \/ \E seen \in BOOLEAN : EvOuterCheck(seen)
  \/ EvWait
  \/ EvHandle
  \/ EvInvoke
  \/ EvReady
  \/ EvRelock

(***************************************************************************)
(* The rest of the application and the environment                         *)
(***************************************************************************)
TerminateExists == mainPc \notin {"comm_config", "exited"} /\ commInitOk # "fail"

StartSucceeded ==
  mainPc \in {"register", "infr_init", "wait_call", "wait_acquire",
              "wait_sleep", "wait_join", "infr_deinit", "comm_deinit"}

\* the programmatic path records a reason of its own
TerminateApp_SetsReason(ms) ==
  /\ StartSucceeded
  /\ envSteps < MaxEnvSteps
  /\ envSteps' = envSteps + 1
  /\ m_wait_ms' = ms
  /\ m_terminate' = m_terminate + 1
  /\ m_terminate_reason' = "Programmatic termination"
  /\ termAppCalled' = TRUE
  /\ UNCHANGED cfgVars
  /\ UNCHANGED <<mainLocal, procState, sigmaskBlocked, sigLocal, evLocal,
                 pending, secondSigintEarly,
                 ghostVars, m_event_queue, m_stop_event_processor,
                 m_config_reload_listeners, sigJoinable,
                 evJoinable, waitResult>>

\* Terminate::TerminateApp(milis_to_wait), called by some application thread
TerminateApp(ms) ==
  /\ StartSucceeded
  /\ envSteps < MaxEnvSteps
  /\ envSteps' = envSteps + 1
  /\ m_wait_ms' = ms
  /\ m_terminate' = m_terminate + 1
  /\ termAppCalled' = TRUE
  /\ UNCHANGED cfgVars
  /\ UNCHANGED <<mainLocal, procState, sigmaskBlocked, sigLocal, evLocal,
                 pending, secondSigintEarly,
                 ghostVars, m_event_queue, m_stop_event_processor,
                 m_terminate_reason, m_config_reload_listeners, sigJoinable,
                 evJoinable, waitResult>>

\* Terminate::RegisterConfigReloadListener(callback), called by a module
RegisterConfigReloadListener(cb) ==
  /\ TerminateExists
  /\ mainPc \notin {"return0", "return1", "dtor_ev", "dtor_ev_join",
                    "dtor_sig", "dtor_sig_join"}
  /\ envSteps < MaxEnvSteps
  /\ envSteps' = envSteps + 1
  /\ m_config_reload_listeners' = Append(m_config_reload_listeners, cb)
  /\ regHup' = Append(regHup, hupReceived)
  /\ UNCHANGED cfgVars
  /\ UNCHANGED <<mainLocal, procState, sigmaskBlocked, sigLocal, evLocal,
                 pending, termAppCalled, secondSigintEarly,
                 hupReceived, invoked, termSignal, m_event_queue,
                 m_stop_event_processor, m_terminate, m_wait_ms,
                 m_terminate_reason, sigJoinable, evJoinable, waitResult>>

\* kill(pid, s): standard signals do not queue, a pending signal stays pending
Kill(s) ==
  /\ procState = "running"
  /\ sigmaskBlocked
  /\ sigPc # "none"
  /\ envSteps < MaxEnvSteps
  /\ envSteps' = envSteps + 1
  /\ pending' = pending \cup {s}
  /\ secondSigintEarly' =
       (secondSigintEarly \/ (s = "SIGINT" /\ termSignal = "SIGINT"))
  /\ UNCHANGED cfgVars
  /\ UNCHANGED <<mainLocal, procState, sigmaskBlocked, sigLocal, evLocal,
                 termAppCalled, ghostVars, termObj, waitResult>>

DelayValues == {0, 100}

EnvStep ==
  \/ \E ms \in DelayValues : TerminateApp(ms)
  \/ \E cb \in Callbacks : RegisterConfigReloadListener(cb)
  \/ \E s \in WaitedSignals : Kill(s)
  \/ SigWaitFails

(***************************************************************************)
(* TOML values                                                             *)
(***************************************************************************)
\* toml::value: default-constructed (empty), table, integer, boolean,
\* floating (mantissa m scaled by 10^-e) or string.  Strings, keys and paths
\* are sequences of characters.
EmptyValue == [kind |-> "empty"]
TableValue(t) == [kind |-> "table", t |-> t]
IntegerValue(n) == [kind |-> "integer", i |-> n]
BooleanValue(b) == [kind |-> "boolean", b |-> b]
FloatingValue(m, e) == [kind |-> "floating", m |-> m, e |-> e]
StringValue(s) == [kind |-> "string", s |-> s]

EmptyTable == TableValue([k \in {} |-> EmptyValue])

is_table(v) == v.kind = "table"

\* table[key] = value
Put(t, key, value) ==
  [k \in (DOMAIN t) \cup {key} |-> IF k = key THEN value ELSE t[k]]

(***************************************************************************)
(* Config::MergeToml                                                       *)
(***************************************************************************)
\* the tables are not merged recursively: every key of src overwrites
MergeToml_Shallow(dest, src) ==
  IF ~is_table(src) \/ ~is_table(dest)
    THEN src
    ELSE TableValue(
           [k \in (DOMAIN dest.t) \cup (DOMAIN src.t) |->
              IF k \in DOMAIN src.t THEN src.t[k] ELSE dest.t[k]])

RECURSIVE MergeToml(_, _)
MergeToml(dest, src) ==
  IF ~is_table(src) \/ ~is_table(dest)
    THEN src
    ELSE TableValue(
           [k \in (DOMAIN dest.t) \cup (DOMAIN src.t) |->
              IF k \in DOMAIN src.t
                THEN IF /\ k \in DOMAIN dest.t
                        /\ is_table(dest.t[k])
                        /\ is_table(src.t[k])
                       THEN MergeToml(dest.t[k], src.t[k])
                       ELSE src.t[k]
                ELSE dest.t[k]])

(***************************************************************************)
(* Config::InferValueType                                                  *)
(***************************************************************************)
DigitChars == <<"0", "1", "2", "3", "4", "5", "6", "7", "8", "9">>

IsDigit(c) == \E d \in 1 .. 10 : DigitChars[d] = c

DigitOf(c) == (CHOOSE d \in 1 .. 10 : DigitChars[d] = c) - 1

\* number of leading digits of s
RECURSIVE DigitRun(_)
DigitRun(s) ==
  IF s # <<>> /\ IsDigit(Head(s)) THEN 1 + DigitRun(Tail(s)) ELSE 0

\* value of a sequence of digits, after the digits read so far gave acc
RECURSIVE DigitsValue(_, _)
DigitsValue(s, acc) ==
  IF s = <<>> THEN acc ELSE DigitsValue(Tail(s), 10 * acc + DigitOf(Head(s)))

SignLen(s) == IF s # <<>> /\ Head(s) \in {"+", "-"} THEN 1 ELSE 0

Signed(s, n) == IF s # <<>> /\ Head(s) = "-" THEN 0 - n ELSE n

Drop(s, n) == SubSeq(s, n + 1, Len(s))

\* std::stoll(value_str, &pos): [sign] digits; pos = 0 stands for the throw.
\* Leading blanks are not modelled, nor are exponents, hexadecimal digits,
\* "inf" and "nan" for std::stod: the strings of the model hold none.
StollPos(s) ==
  LET d == DigitRun(Drop(s, SignLen(s)))
  IN IF d = 0 THEN 0 ELSE SignLen(s) + d

StollValue(s) ==
  Signed(s, DigitsValue(SubSeq(s, SignLen(s) + 1, StollPos(s)), 0))

\* std::stod(value_str, &pos): [sign] digits [. digits] | [sign] . digits
StodIntLen(s) == DigitRun(Drop(s, SignLen(s)))

StodHasPoint(s) ==
  LET r == Drop(s, SignLen(s) + StodIntLen(s))
  IN r # <<>> /\ Head(r) = "."

StodFracLen(s) ==
  IF StodHasPoint(s)
    THEN DigitRun(Drop(s, SignLen(s) + StodIntLen(s) + 1))
    ELSE 0

StodPos(s) ==
  IF StodIntLen(s) + StodFracLen(s) = 0
    THEN 0
    ELSE SignLen(s) + StodIntLen(s)
           + (IF StodHasPoint(s) THEN 1 + StodFracLen(s) ELSE 0)

StodValue(s) ==
  LET ip == SubSeq(s, SignLen(s) + 1, SignLen(s) + StodIntLen(s))
      fp == SubSeq(s, SignLen(s) + StodIntLen(s) + 2,
                   SignLen(s) + StodIntLen(s) + 1 + StodFracLen(s))
  IN FloatingValue(Signed(s, DigitsValue(fp, DigitsValue(ip, 0))),
                   StodFracLen(s))

InferValueType_AnyPrefix(value_str) ==
  IF value_str \in {<<"t", "r", "u", "e">>, <<"T", "R", "U", "E">>}
    THEN BooleanValue(TRUE)
  ELSE IF value_str \in {<<"f", "a", "l", "s", "e">>, <<"F", "A", "L", "S", "E">>}
    THEN BooleanValue(FALSE)
  ELSE IF StollPos(value_str) # 0
    THEN IntegerValue(StollValue(value_str))
  ELSE IF StodPos(value_str) # 0
    THEN StodValue(value_str)
  ELSE StringValue(value_str)

InferValueType(value_str) ==
  IF value_str \in {<<"t", "r", "u", "e">>, <<"T", "R", "U", "E">>}
    THEN BooleanValue(TRUE)
  ELSE IF value_str \in {<<"f", "a", "l", "s", "e">>, <<"F", "A", "L", "S", "E">>}
    THEN BooleanValue(FALSE)
  ELSE IF StollPos(value_str) # 0 /\ StollPos(value_str) = Len(value_str)
    THEN IntegerValue(StollValue(value_str))
  ELSE IF StodPos(value_str) # 0 /\ StodPos(value_str) = Len(value_str)
    THEN StodValue(value_str)
  ELSE StringValue(value_str)

(***************************************************************************)
(* Files                                                                   *)
(***************************************************************************)
Key_a == <<"a">>
Key_b == <<"b">>

\* a = 1
DocScalar == TableValue([k \in {Key_a} |-> IntegerValue(1)])

\* [a]  b = 7
DocNested ==
  TableValue([k \in {Key_a} |->
                TableValue([j \in {Key_b} |-> IntegerValue(7)])])

Key_c == <<"c">>

\* [a]  b = 9
DocNestedOther ==
  TableValue([k \in {Key_a} |->
                TableValue([j \in {Key_b} |-> IntegerValue(9)])])

\* b = 5  [a]  c = 3
DocSibling ==
  TableValue([k \in {Key_a, Key_b} |->
                IF k = Key_a
                  THEN TableValue([j \in {Key_c} |-> IntegerValue(3)])
                  ELSE IntegerValue(5)])

\* [a.b]  c = 1
DocDeep ==
  TableValue([k \in {Key_a} |->
     TableValue([j \in {Key_b} |->
        TableValue([i \in {Key_c} |-> IntegerValue(1)])])])

\* [a]  c = 4  [a.b]  a = 2
DocDeepOther ==
  TableValue([k \in {Key_a} |->
     TableValue([j \in {Key_b, Key_c} |->
        IF j = Key_b
          THEN TableValue([i \in {Key_a} |-> IntegerValue(2)])
          ELSE IntegerValue(4)])])

Absent == [kind |-> "absent"]
Invalid == [kind |-> "invalid"]
Toml(doc) == [kind |-> "toml", doc |-> doc]

FileContents == {Absent, Invalid, Toml(DocScalar), Toml(DocNested)}

\* the contents a candidate file can have when the service starts
StartupContents ==
  FileContents \cup {Toml(DocNestedOther), Toml(DocSibling), Toml(DocDeep),
                     Toml(DocDeepOther)}

AppNames == {"app"}

\* "/etc/<app_name>/config.toml" and GetXdgConfigHome() + "/<app_name>/config.toml"
CandidatePaths(app_name) == << <<"/etc", app_name>>, <<"xdg", app_name>> >>

SingleFiles == { <<"file", "test.toml">> }

FilePaths ==
  SingleFiles \cup {CandidatePaths(n)[i] : n \in AppNames, i \in 1 .. 2}

(***************************************************************************)
(* Config::Config, Initialize, Load                                        *)
(***************************************************************************)
NoPre ==
  [m_initialized |-> FALSE, m_config_paths |-> <<>>, m_data |-> EmptyValue,
   m_overrides |-> <<>>, m_reload_listeners |-> <<>>]

\* Config::Config(): m_data = toml::table{}
InitConfigObject ==
  /\ m_initialized = FALSE
  /\ m_app_name = ""
  /\ m_config_paths = <<>>
  /\ m_data = EmptyTable
  /\ m_overrides = <<>>
  /\ m_reload_listeners = <<>>
  /\ cfgOp = "none"
  /\ cfgRet = "Success"
  /\ cfgNotified = <<>>
  /\ cfgPre = NoPre
  /\ cfgLastSet = <<>>
  /\ cfgCalls = 0
  /\ cfgWrites = 0

\* One turn of the loop of Initialize over candidate_paths.  acc.ret is
\* "running" until a syntax error makes the function return ParseError.
InitializeCandidate(acc, path) ==
  IF acc.ret # "running" THEN acc
  ELSE IF files[path].kind = "absent" THEN acc
  ELSE IF files[path].kind = "invalid" THEN [acc EXCEPT !.ret = "ParseError"]
  ELSE [acc EXCEPT
          !.m_data = IF is_table(acc.m_data)
                       THEN MergeToml(acc.m_data, files[path].doc)
                       ELSE files[path].doc,
          !.m_config_paths = Append(@, path)]

\* Config::Initialize(app_name): the fields it leaves and the code it returns
InitializeBody(app_name) ==
  LET start == [ret |-> "running", m_initialized |-> m_initialized,
                m_app_name |-> app_name, m_config_paths |-> <<>>,
                m_data |-> EmptyValue]
      first == InitializeCandidate(start, CandidatePaths(app_name)[1])
      second == InitializeCandidate(first, CandidatePaths(app_name)[2])
  IN IF second.ret = "ParseError"
       THEN second
       ELSE [second EXCEPT !.ret = "Success", !.m_initialized = TRUE]

\* Config::Load(config_path): m_data is assigned only when the parse succeeded
LoadBody(config_path) ==
  LET same == [ret |-> "Success", m_initialized |-> m_initialized,
               m_app_name |-> m_app_name, m_config_paths |-> m_config_paths,
               m_data |-> m_data]
  IN IF files[config_path].kind = "invalid"
       THEN [same EXCEPT !.ret = "ParseError"]
     ELSE IF files[config_path].kind = "absent"
       THEN [same EXCEPT !.ret = "FileNotFound"]
     ELSE [same EXCEPT !.m_data = files[config_path].doc,
                       !.m_config_paths = <<config_path>>,
                       !.m_initialized = TRUE]

(***************************************************************************)
(* Config::SetOverride and the reapplication of overrides                  *)
(***************************************************************************)
\* path.find('.'): index of the first '.', 0 for npos
FindDot(path) ==
  IF \E i \in 1 .. Len(path) : path[i] = "."
    THEN CHOOSE i \in 1 .. Len(path) :
           path[i] = "." /\ \A j \in 1 .. (i - 1) : path[j] # "."
    ELSE 0

\* "infr_main.port" -> ["infr_main", "port"]
RECURSIVE SplitPath(_)
SplitPath(path) ==
  LET end == FindDot(path)
  IN IF end = 0
       THEN <<path>>
       ELSE <<SubSeq(path, 1, end - 1)>> \o SplitPath(Drop(path, end))

\* The walk of SetOverride from `current`: missing tables are created, a node
\* that is not a table stops the walk and nothing is assigned.
RECURSIVE SetOverrideWalk(_, _, _)
SetOverrideWalk(current, keys, value) ==
  IF ~is_table(current) THEN current
  ELSE IF Len(keys) = 1 THEN TableValue(Put(current.t, keys[1], value))
  ELSE LET child == IF keys[1] \in DOMAIN current.t
                      THEN current.t[keys[1]]
                      ELSE EmptyTable
       IN TableValue(Put(current.t, keys[1],
                         SetOverrideWalk(child, Tail(keys), value)))

\* the tree SetOverride(path, value) leaves
SetOverrideData(data, path, value) ==
  SetOverrideWalk(IF is_table(data) THEN data ELSE EmptyTable,
                  SplitPath(path), InferValueType(value))

\* m_overrides[path] = value
RecordOverride(overrides, path, value) == Put(overrides, path, value)

\* Config::ApplyOverrideToData: as SetOverride on the tree, where an
\* intermediate node that is not a table is replaced by an empty table
RECURSIVE ApplyOverrideWalk(_, _, _)
ApplyOverrideWalk(current, keys, value) ==
  LET table == IF is_table(current) THEN current.t ELSE EmptyTable.t
  IN IF Len(keys) = 1 THEN TableValue(Put(table, keys[1], value))
     ELSE LET child == IF keys[1] \in DOMAIN table
                         THEN table[keys[1]]
                         ELSE EmptyTable
          IN TableValue(Put(table, keys[1],
                            ApplyOverrideWalk(child, Tail(keys), value)))

ApplyOverrideToData(data, path, value) ==
  ApplyOverrideWalk(data, SplitPath(path), InferValueType(value))

\* the iteration orders of the unordered map
Orders(S) ==
  {o \in [1 .. Cardinality(S) -> S] :
     \A i, j \in 1 .. Cardinality(S) : i # j => o[i] # o[j]}

\* Config::ApplyOverrides: every entry of m_overrides, in the map's order
RECURSIVE ApplyOverrides(_, _, _)
ApplyOverrides(data, overrides, order) ==
  IF order = <<>>
    THEN data
    ELSE ApplyOverrides(
           ApplyOverrideToData(data, Head(order), overrides[Head(order)]),
           overrides, Tail(order))

\* Config::NotifyReloadListeners: each listener of the list is called inside
\* try/catch; `called` is the sequence of calls made
RECURSIVE NotifyReloadListeners_StopOnThrow(_, _)
NotifyReloadListeners_StopOnThrow(listeners, called) ==
  IF listeners = <<>>
    THEN called
    ELSE IF Head(listeners) = "cbThrows"
      THEN Append(called, Head(listeners))
      ELSE NotifyReloadListeners_StopOnThrow(Tail(listeners),
                                             Append(called, Head(listeners)))

RECURSIVE NotifyReloadListeners(_, _)
NotifyReloadListeners(listeners, called) ==
  IF listeners = <<>>
    THEN called
    ELSE NotifyReloadListeners(Tail(listeners), Append(called, Head(listeners)))

\* threads that call Wait on the semaphore
MaxWaiters == 2
Waiters == 1 .. MaxWaiters

\* no argument, nothing read yet, no semaphore in use
NotRead == [kind |-> "none"]

InitNoSemaphore ==
  /\ m_counter = 0
  /\ semPc = [t \in Waiters |-> "idle"]
  /\ semInitial = 0
  /\ semSignals = 0
  /\ semReturns = 0
  /\ semResult = [t \in Waiters |-> "none"]

\* no call of FindAvailablePort
InitNoPort ==
  /\ port_number = 0
  /\ port = 0
  /\ bindable = {}
  /\ socket_ok = TRUE
  /\ fapPc = "idle"
  /\ fapRet = 0

\* InfrConfig(): not initialized, the cache holds the struct's defaults
InitInfrConfig ==
  /\ infr_initialized = FALSE
  /\ m_config = [device_name |-> <<"default_device">>, port |-> 8080,
                 enable_logging |-> TRUE,
                 timeout_seconds |-> [m |-> 30, e |-> 0]]
  /\ infrInitCalls = 0
  /\ onConfigReloads = 0
  /\ m_listeners = <<>>
  /\ infrSeen = <<>>

\* comm::Config(): an empty table, no call made
InitStandaloneObject ==
  /\ impl_data = EmptyTable
  /\ stdCalls = <<>>

\* getenv returning a null pointer, or a pointer to the string s
EnvUnset == [kind |-> "unset"]
EnvSet(s) == [kind |-> "set", s |-> s]

\* no path has been resolved yet
NotResolved == [kind |-> "none"]

InitNoEnvironment ==
  /\ env_XDG_CONFIG_HOME = EnvUnset
  /\ env_HOME = EnvUnset
  /\ pw_dir = EnvUnset
  /\ candidate_user_path = NotResolved
  /\ user_config = NotResolved

InitIdle ==
  InitNoPort /\ InitStandaloneObject /\ InitInfrConfig /\ InitNoEnvironment

InitUtil ==
  /\ argv = <<>>
  /\ got = NotRead
  /\ InitNoSemaphore
  /\ InitIdle

Init ==
  /\ InitProc
  /\ InitConfigObject
  /\ InitUtil
  /\ files = [p \in FilePaths |-> Absent]

Next == MainStep \/ SigStep \/ EvStep \/ EnvStep

Spec == Init /\ [][Next]_vars

\* Threads that can run do run; the environment owes nothing.
FairSpec == Spec /\ WF_vars(MainStep) /\ WF_vars(SigStep) /\ WF_vars(EvStep)

(***************************************************************************)
(* Operations of the configuration singleton                               *)
(***************************************************************************)
\* "a" and "a.b"
OverridePaths == { <<"a">>, <<"a", ".", "b">> }

\* "42" and "1.5"
OverrideValues == { <<"4", "2">>, <<"1", ".", "5">> }

cfgFrame == <<procVars, files, cfgWrites, utilVars>>

Called(op, ret) ==
  /\ cfgCalls < MaxCfgCalls
  /\ cfgCalls' = cfgCalls + 1
  /\ cfgOp' = op
  /\ cfgRet' = ret

Initialize(app_name) ==
  LET body == InitializeBody(app_name)
  IN /\ Called("Initialize", body.ret)
     /\ m_initialized' = body.m_initialized
     /\ m_app_name' = body.m_app_name
     /\ m_config_paths' = body.m_config_paths
     /\ m_data' = body.m_data
     /\ cfgNotified' = <<>>
     /\ cfgPre' = NoPre
     /\ UNCHANGED <<cfgFrame, m_overrides, m_reload_listeners, cfgLastSet>>

Load(config_path) ==
  LET body == LoadBody(config_path)
  IN /\ Called("Load", body.ret)
     /\ m_initialized' = body.m_initialized
     /\ m_app_name' = body.m_app_name
     /\ m_config_paths' = body.m_config_paths
     /\ m_data' = body.m_data
     /\ cfgNotified' = <<>>
     /\ cfgPre' = NoPre
     /\ UNCHANGED <<cfgFrame, m_overrides, m_reload_listeners, cfgLastSet>>

\* the two early returns of Reload
ReloadPrecondition_NoInitCheck ==
  IF m_config_paths = <<>> THEN "NotInitialized" ELSE "Success"

ReloadPrecondition ==
  IF ~m_initialized THEN "NotInitialized"
  ELSE IF m_config_paths = <<>> THEN "NotInitialized"
  ELSE "Success"

\* Config::Reload: re-initialise the hierarchy or re-load the single file;
\* after a success the overrides are reapplied and the listeners notified
ReloadConfig ==
  LET same == [ret |-> ReloadPrecondition, m_initialized |-> m_initialized,
               m_app_name |-> m_app_name, m_config_paths |-> m_config_paths,
               m_data |-> m_data]
      body == IF ReloadPrecondition # "Success" THEN same
              ELSE IF m_app_name # "" THEN InitializeBody(m_app_name)
              ELSE LoadBody(m_config_paths[1])
  IN /\ Called("Reload", body.ret)
     /\ m_initialized' = body.m_initialized
     /\ m_app_name' = body.m_app_name
     /\ m_config_paths' = body.m_config_paths
     /\ IF body.ret = "Success"
          THEN /\ \E order \in Orders(DOMAIN m_overrides) :
                    m_data' = ApplyOverrides(body.m_data, m_overrides, order)
               /\ cfgNotified' = NotifyReloadListeners(m_reload_listeners, <<>>)
          ELSE /\ m_data' = body.m_data
               /\ cfgNotified' = <<>>
     /\ cfgPre' = [m_initialized |-> m_initialized,
                   m_config_paths |-> m_config_paths, m_data |-> m_data,
                   m_overrides |-> m_overrides,
                   m_reload_listeners |-> m_reload_listeners]
     /\ UNCHANGED <<m_overrides, m_reload_listeners, cfgLastSet>>

\* Reload when none of the listeners touches the modelled state
Reload == ReloadConfig /\ UNCHANGED cfgFrame

SetOverride(path, value) ==
  /\ Called("SetOverride", "Success")
  /\ m_data' = SetOverrideData(m_data, path, value)
  /\ m_overrides' = RecordOverride(m_overrides, path, value)
  /\ cfgLastSet' = Put(cfgLastSet, path, value)
  /\ cfgNotified' = <<>>
  /\ cfgPre' = NoPre
  /\ UNCHANGED <<cfgFrame, m_initialized, m_app_name, m_config_paths,
                 m_reload_listeners>>

RegisterReloadListener(callback) ==
  /\ Called("RegisterReloadListener", "Success")
  /\ m_reload_listeners' = Append(m_reload_listeners, callback)
  /\ cfgNotified' = <<>>
  /\ cfgPre' = NoPre
  /\ UNCHANGED <<cfgFrame, m_initialized, m_app_name, m_config_paths, m_data,
                 m_overrides, cfgLastSet>>

\* the environment creates, rewrites or deletes a configuration file
WriteFile(path, content) ==
  /\ cfgWrites < MaxFileWrites
  /\ files[path] # content
  /\ cfgWrites' = cfgWrites + 1
  /\ files' = [files EXCEPT ![path] = content]
  /\ UNCHANGED <<procVars, cfgObj, cfgGhost, cfgLastSet, cfgCalls, utilVars>>

NextConfig ==
  \/ \E n \in AppNames : Initialize(n)
  \/ \E p \in SingleFiles : Load(p)
  \/ Reload
  \/ \E p \in OverridePaths, v \in OverrideValues : SetOverride(p, v)
  \/ \E cb \in Callbacks : RegisterReloadListener(cb)
  \/ \E p \in FilePaths, c \in FileContents : WriteFile(p, c)

InitConfig ==
  /\ InitProc
  /\ InitConfigObject
  /\ InitUtil
  /\ files = [p \in FilePaths |-> Absent]

SpecConfig == InitConfig /\ [][NextConfig]_vars

(***************************************************************************)
(* Start of the service over any pair of candidate files                   *)
(***************************************************************************)
InitStartup ==
  /\ InitProc
  /\ InitConfigObject
  /\ InitUtil
  /\ files \in [FilePaths -> StartupContents]
  /\ \A p \in SingleFiles : files[p] = Absent

NextStartup == \E n \in AppNames : Initialize(n)

SpecStartup == InitStartup /\ [][NextStartup]_vars

(***************************************************************************)
(* Overrides set on a fresh singleton, over raw strings of every type      *)
(***************************************************************************)
\* "a.b" and "c"
InferPaths == { <<"a", ".", "b">>, <<"c">> }

RawStrings ==
  { <<"t", "r", "u", "e">>, <<"T", "R", "U", "E">>, <<"T", "r", "u", "e">>,
    <<"t", "R", "u", "E">>, <<"f", "a", "l", "s", "e">>,
    <<"F", "A", "L", "S", "E">>, <<"F", "a", "l", "s", "e">>,
    <<"4", "2">>, <<"-", "7">>, <<"1", ".", "5">>, <<"-", ".", "5">>,
    <<"4", "2", "u">>, <<"1", ".", "5", ".">>, <<"t", "r", "u">>, <<"-">> }

NextOverride == \E p \in InferPaths, v \in RawStrings : SetOverride(p, v)

SpecOverride == InitConfig /\ [][NextOverride]_vars

(***************************************************************************)
(* Main::init of the Common layer: configuration and --set overrides       *)
(***************************************************************************)
MaxArgs == 4

SetFlag == <<"-", "-", "s", "e", "t">>

\* "--set", "a=5", "a=7", "a.b=2", "a=b=2", "=5", "a=" and "ab"
ArgTokens ==
  { SetFlag, <<"a", "=", "5">>, <<"a", "=", "7">>,
    <<"a", ".", "b", "=", "2">>, <<"a", "=", "b", "=", "2">>,
    <<"=", "5">>, <<"a", "=">>, <<"a", "b">> }

ArgVectors == UNION {[1 .. n -> ArgTokens] : n \in 0 .. MaxArgs}

\* keyval.find('='): index of the first '=', 0 for npos
FindEq(keyval) ==
  IF \E i \in 1 .. Len(keyval) : keyval[i] = "="
    THEN CHOOSE i \in 1 .. Len(keyval) :
           keyval[i] = "=" /\ \A j \in 1 .. (i - 1) : keyval[j] # "="
    ELSE 0

\* the loop of ParseCommandLineOverrides from argument i on
RECURSIVE ParseFrom(_, _, _)
ParseFrom(args, i, overrides) ==
  IF i > Len(args) THEN overrides
  ELSE IF args[i] = SetFlag /\ i + 1 <= Len(args)
    THEN LET keyval == args[i + 1]
             eq_pos == FindEq(keyval)
         IN IF eq_pos # 0 /\ eq_pos > 1 /\ eq_pos < Len(keyval)
              THEN ParseFrom(args, i + 2,
                             Append(overrides,
                                    [key |-> SubSeq(keyval, 1, eq_pos - 1),
                                     value |-> Drop(keyval, eq_pos)]))
              ELSE ParseFrom(args, i + 2, overrides)
    ELSE ParseFrom(args, i + 1, overrides)

ParseCommandLineOverrides(args) == ParseFrom(args, 1, <<>>)

\* for (const auto& [key, value] : cli_overrides) SetOverride(key, value):
\* the tree, the override map and the record of the calls it leaves
RECURSIVE SetOverrides(_, _)
SetOverrides(state, cli_overrides) ==
  IF cli_overrides = <<>> THEN state
  ELSE LET o == Head(cli_overrides)
       IN SetOverrides(
            [m_data |-> SetOverrideData(state.m_data, o.key, o.value),
             m_overrides |-> RecordOverride(state.m_overrides, o.key, o.value),
             lastSet |-> Put(state.lastSet, o.key, o.value)],
            Tail(cli_overrides))

\* Main::init up to the overrides: Initialize(app_name), which is fatal when
\* it fails, then every parsed override in the order of the vector
MainInit(app_name) ==
  LET body == InitializeBody(app_name)
      after == SetOverrides([m_data |-> body.m_data,
                             m_overrides |-> m_overrides,
                             lastSet |-> cfgLastSet],
                            ParseCommandLineOverrides(argv))
  IN /\ cfgOp = "none"
     /\ Called("Main::init", body.ret)
     /\ m_initialized' = body.m_initialized
     /\ m_app_name' = body.m_app_name
     /\ m_config_paths' = body.m_config_paths
     /\ IF body.ret = "Success"
          THEN /\ m_data' = after.m_data
               /\ m_overrides' = after.m_overrides
               /\ cfgLastSet' = after.lastSet
          ELSE /\ m_data' = body.m_data
               /\ UNCHANGED <<m_overrides, cfgLastSet>>
     /\ cfgNotified' = <<>>
     /\ cfgPre' = NoPre
     /\ UNCHANGED <<cfgFrame, m_reload_listeners>>

\* what /etc/<app_name>/config.toml can hold when the process starts
CommandLineContents == {Absent, Invalid, Toml(DocScalar)}

InitCommandLine ==
  /\ InitProc
  /\ InitConfigObject
  /\ got = NotRead
  /\ InitNoSemaphore
  /\ InitIdle
  /\ argv \in ArgVectors
  /\ \E c \in CommandLineContents :
       files = [p \in FilePaths |->
                  IF \E n \in AppNames : p = CandidatePaths(n)[1]
                    THEN c ELSE Absent]

NextCommandLine == \E n \in AppNames : MainInit(n)

SpecCommandLine == InitCommandLine /\ [][NextCommandLine]_vars

(***************************************************************************)
(* Config::Get<InfrMainConfig>("infr_main") and infr::from_toml            *)
(***************************************************************************)
Key_infr_main == <<"infr_main">>
Key_device_name == <<"device_name">>
Key_port == <<"port">>
Key_enable_logging == <<"enable_logging">>
Key_timeout_seconds == <<"timeout_seconds">>

InfrKeys ==
  {Key_device_name, Key_port, Key_enable_logging, Key_timeout_seconds}

\* static const InfrMainConfig defaults: "default_device", 8080, true, 30.0
defaults ==
  [device_name |-> StringValue(<<"default_device">>),
   port |-> IntegerValue(8080),
   enable_logging |-> BooleanValue(TRUE),
   timeout_seconds |-> FloatingValue(30, 0)]

\* toml::find_or(src, key, opt): opt unless src is a table that holds key
\* with a value of the type of opt (toml::get<T> throws on any other type,
\* an integer read as a double included, and find_or returns opt then)
find_or(src, key, opt) ==
  IF ~is_table(src) THEN opt
  ELSE IF key \notin DOMAIN src.t THEN opt
  ELSE IF src.t[key].kind # opt.kind THEN opt
  ELSE src.t[key]

\* infr::from_toml: the struct it fills, field by field
from_toml(src) ==
  [device_name |-> find_or(src, Key_device_name, defaults.device_name).s,
   port |-> find_or(src, Key_port, defaults.port).i,
   enable_logging |->
     find_or(src, Key_enable_logging, defaults.enable_logging).b,
   timeout_seconds |->
     LET v == find_or(src, Key_timeout_seconds, defaults.timeout_seconds)
     IN [m |-> v.m, e |-> v.e]]

\* Config::Get<T>(path) for T = InfrMainConfig
Get(data, path) ==
  IF is_table(data) /\ path \in DOMAIN data.t
    THEN from_toml(data.t[path])
    ELSE from_toml(EmptyValue)

GetInfrMainConfig ==
  /\ Called("Get", "Success")
  /\ got' = Get(m_data, Key_infr_main)
  /\ cfgNotified' = <<>>
  /\ cfgPre' = NoPre
  /\ UNCHANGED <<procVars, files, cfgWrites, argv, semVars, otherVars,
                 cfgObj, cfgLastSet>>

\* values a key of the section can hold in a file: one of each type
InfrValues ==
  {IntegerValue(9000), FloatingValue(45, 1), BooleanValue(FALSE),
   StringValue(<<"dev">>)}

\* the [infr_main] sections: any subset of the four keys, any typed value
InfrSections ==
  {TableValue(t) : t \in UNION {[D -> InfrValues] : D \in SUBSET InfrKeys}}

\* a file without the section, with the section, or with a scalar infr_main
InfrContents ==
  {Toml(EmptyTable)}
    \cup {Toml(TableValue([k \in {Key_infr_main} |-> section])) :
            section \in InfrSections \cup {IntegerValue(9000)}}

InitGet ==
  /\ InitProc
  /\ InitConfigObject
  /\ InitUtil
  /\ \E c \in InfrContents :
       files = [p \in FilePaths |-> IF p \in SingleFiles THEN c ELSE Absent]

NextGet ==
  \/ \E n \in AppNames : Initialize(n)
  \/ \E p \in SingleFiles : Load(p)
  \/ GetInfrMainConfig

SpecGet == InitGet /\ [][NextGet]_vars

(***************************************************************************)
(* drv::Semaphore                                                          *)
(***************************************************************************)
MaxSignals == 3
MaxInitialCount == 2

semFrame ==
  <<procVars, cfgObj, files, cfgGhost, cfgLastSet, cfgCalls, cfgWrites, argv,
    got, otherVars>>

\* explicit Semaphore(int counter)
InitSemaphore ==
  /\ semInitial \in 0 .. MaxInitialCount
  /\ m_counter = semInitial
  /\ semPc = [t \in Waiters |-> "idle"]
  /\ semSignals = 0
  /\ semReturns = 0
  /\ semResult = [t \in Waiters |-> "none"]

\* threads blocked in m_resource_available.wait
Blocked(pc) == {t \in Waiters : pc[t] = "waiting"}

\* notify_one wakes no thread when none is blocked
notify_one_Lost(pc) == {pc}

\* m_resource_available.notify_one(): one of the blocked threads, if any,
\* is unblocked
notify_one(pc) ==
  IF Blocked(pc) = {}
    THEN {pc}
    ELSE {[pc EXCEPT ![t] = "woken"] : t \in Blocked(pc)}

\* Semaphore::Signal, under m_mtx
Signal ==
  /\ semSignals < MaxSignals
  /\ semSignals' = semSignals + 1
  /\ m_counter' = m_counter + 1
  /\ semPc' \in notify_one(semPc)
  /\ UNCHANGED <<semFrame, semInitial, semReturns, semResult>>

\* m_counter--; and the return of Wait
TakeUnit(t) ==
  /\ m_counter' = m_counter - 1
  /\ semPc' = [semPc EXCEPT ![t] = "done"]
  /\ semReturns' = semReturns + 1
  /\ semResult' = [semResult EXCEPT ![t] = "returned"]

BlockThread(t) ==
  /\ semPc' = [semPc EXCEPT ![t] = "waiting"]
  /\ UNCHANGED <<m_counter, semReturns, semResult>>

\* Semaphore::Wait from the lock to the first test of the loop
WaitEnter(t) ==
  /\ semPc[t] \in {"idle", "done"}
  /\ IF m_counter = 0 THEN BlockThread(t) ELSE TakeUnit(t)
  /\ UNCHANGED <<semFrame, semInitial, semSignals>>

\* the unit is taken after the first wake-up, without a new test
WaitRecheck_NoRetest(t) ==
  /\ semPc[t] = "woken"
  /\ TakeUnit(t)
  /\ UNCHANGED <<semFrame, semInitial, semSignals>>

\* wait() returned with the lock held: the loop tests m_counter == 0 again
WaitRecheck(t) ==
  /\ semPc[t] = "woken"
  /\ IF m_counter = 0 THEN BlockThread(t) ELSE TakeUnit(t)
  /\ UNCHANGED <<semFrame, semInitial, semSignals>>

\* a condition variable may wake a thread that nobody notified
SpuriousWake(t) ==
  /\ semPc[t] = "waiting"
  /\ semPc' = [semPc EXCEPT ![t] = "woken"]
  /\ UNCHANGED <<semFrame, m_counter, semInitial, semSignals, semReturns,
                 semResult>>

WaiterStep(t) == WaitEnter(t) \/ WaitRecheck(t)

NextSemaphore ==
  \/ Signal
  \/ \E t \in Waiters : WaiterStep(t)
  \/ \E t \in Waiters : SpuriousWake(t)

InitSemaphoreOnly ==
  /\ InitProc
  /\ InitConfigObject
  /\ files = [p \in FilePaths |-> Absent]
  /\ argv = <<>>
  /\ got = NotRead
  /\ InitSemaphore
  /\ InitIdle

SpecSemaphore == InitSemaphoreOnly /\ [][NextSemaphore]_vars

\* a thread that holds the processor goes on; nobody owes a Signal, a new
\* call of Wait or a spurious wake-up
FairSpecSemaphore ==
  SpecSemaphore /\ \A t \in Waiters : WF_vars(WaitRecheck(t))

(***************************************************************************)
(* drv::TimeoutSemaphore                                                   *)
(***************************************************************************)
\* the predicate of wait_for accepts any counter
ResourceAvailable_Always(counter) == TRUE

\* [this] { return m_counter > 0; }
ResourceAvailable(counter) == counter > 0

\* TimeoutSemaphore::Signal, under m_mutex
TimeoutSignal ==
  /\ semSignals < MaxSignals
  /\ semSignals' = semSignals + 1
  /\ m_counter' = m_counter + 1
  /\ semPc' \in notify_one(semPc)
  /\ UNCHANGED <<semFrame, semInitial, semReturns, semResult>>

\* a thread calls Wait(timeout) and asks for m_mutex
TimeoutWaitCall(t) ==
  /\ semPc[t] = "idle"
  /\ semPc' = [semPc EXCEPT ![t] = "locking"]
  /\ UNCHANGED <<semFrame, m_counter, semInitial, semSignals, semReturns,
                 semResult>>

\* --m_counter; return true;
ReturnTrue(t) ==
  /\ m_counter' = m_counter - 1
  /\ semPc' = [semPc EXCEPT ![t] = "idle"]
  /\ semReturns' = semReturns + 1
  /\ semResult' = [semResult EXCEPT ![t] = "true"]

\* return false;  // timeout
ReturnFalse(t) ==
  /\ semPc' = [semPc EXCEPT ![t] = "idle"]
  /\ semResult' = [semResult EXCEPT ![t] = "false"]
  /\ UNCHANGED <<m_counter, semReturns>>

\* wait_for tests the predicate before it blocks, and after every wake-up
\* that came before the timeout
TimeoutWaitTest(t) ==
  /\ semPc[t] \in {"locking", "woken"}
  /\ IF ResourceAvailable(m_counter) THEN ReturnTrue(t) ELSE BlockThread(t)
  /\ UNCHANGED <<semFrame, semInitial, semSignals>>

\* the timeout passes while the thread is blocked: wait_for returns what
\* the predicate gives then
TimeoutExpires(t) ==
  /\ semPc[t] = "waiting"
  /\ IF ResourceAvailable(m_counter) THEN ReturnTrue(t) ELSE ReturnFalse(t)
  /\ UNCHANGED <<semFrame, semInitial, semSignals>>

NextTimeoutSemaphore ==
  \/ TimeoutSignal
  \/ \E t \in Waiters : TimeoutWaitCall(t)
  \/ \E t \in Waiters : TimeoutWaitTest(t)
  \/ \E t \in Waiters : TimeoutExpires(t)
  \/ \E t \in Waiters : SpuriousWake(t)

SpecTimeoutSemaphore == InitSemaphoreOnly /\ [][NextTimeoutSemaphore]_vars

(***************************************************************************)
(* The running service: main is blocked in WaitForTermination, the first   *)
(* SIGHUP has been received and its ConfigReload event is in the queue;    *)
(* more SIGHUPs arrive and listeners are registered while the event        *)
(* processor dispatches                                                    *)
(***************************************************************************)
DispatchSeqs == 1 .. (MaxEnvSteps + 1)

InitDispatch ==
  /\ mainPc = "wait_acquire"
  /\ procState = "running"
  /\ exitCode = 0
  /\ calls = <<"CommInit", "InfrInit", "Wait">>
  /\ commInitOk = "ok"
  /\ infrInitOk = "ok"
  /\ deinitFailed = FALSE
  /\ sigmaskBlocked = TRUE
  /\ pending = {}
  /\ envSteps = 0
  /\ sigPc = "sigwait"
  /\ curSignal = "SIGHUP"
  /\ evPc = "wait"
  /\ evEvent = Shutdown
  /\ listeners_copy = <<>>
  /\ evIdx = 1
  /\ m_event_queue = <<ConfigReload(1)>>
  /\ m_stop_event_processor = FALSE
  /\ m_terminate = 0
  /\ m_wait_ms = 0
  /\ m_terminate_reason = ""
  /\ m_config_reload_listeners = <<"bridge">>
  /\ sigJoinable = TRUE
  /\ evJoinable = TRUE
  /\ waitResult = "<none>"
  /\ hupReceived = 1
  /\ regHup = <<0>>
  /\ invoked = [p \in ListenerSlots \X DispatchSeqs |-> 0]
  /\ termSignal = "none"
  /\ termAppCalled = FALSE
  /\ secondSigintEarly = FALSE
  /\ InitConfigObject
  /\ InitUtil
  /\ files = [p \in FilePaths |-> Absent]

NextDispatch ==
  \/ \E cb \in Callbacks : RegisterConfigReloadListener(cb)
  \/ Kill("SIGHUP")
  \/ SigWaitReturns("SIGHUP")
  \/ SigHupNotify
  \/ SigHupPush
  \/ EvStep

SpecDispatch == InitDispatch /\ [][NextDispatch]_vars

(***************************************************************************)
(* The running service with a listener that may never return: the event   *)
(* processor stays inside the call, signals keep arriving, main is blocked *)
(* in WaitForTermination                                                   *)
(***************************************************************************)
\* the processor keeps m_event_mutex while it calls the listeners
EventMutexHeld_DuringListeners == evPc \in {"invoke", "hung"}

\* lock.unlock() precedes the switch and lock.lock() follows it: between two
\* steps of the event processor m_event_mutex is free
EventMutexHeld == FALSE

\* the signal-wait thread takes m_event_mutex for its push
SigHupPushLocked == ~EventMutexHeld /\ SigHupPush

\* listener() does not return
EvListenerHangs ==
  /\ evPc = "invoke"
  /\ evIdx <= Len(listeners_copy)
  /\ evPc' = "hung"
  /\ UNCHANGED cfgVars
  /\ UNCHANGED <<mainLocal, procState, sigmaskBlocked, sigLocal, evEvent,
                 listeners_copy, evIdx, envVars, ghostVars, termObj,
                 waitResult>>

SigStepRunning ==
  \/ \E s \in WaitedSignals : SigWaitReturns(s)
  \/ SigHupNotify
  \/ SigHupPushLocked
  \/ SigStopping
  \/ SigReason
  \/ SigRelease

WaitStep == WaitAcquire \/ WaitSleep \/ WaitJoin

NextHang ==
  \/ \E s \in WaitedSignals : Kill(s)
  \/ SigStepRunning
  \/ EvStep
  \/ EvListenerHangs
  \/ WaitStep

SpecHang == InitDispatch /\ [][NextHang]_vars

\* the signal-wait thread and the main thread keep running; nothing is
\* assumed of the event processor
FairSpecHang == SpecHang /\ WF_vars(SigStepRunning) /\ WF_vars(WaitStep)

(***************************************************************************)
(* drv::FindAvailablePort (comm_os.cpp).  The counter of the loop is a     *)
(* uint16_t: ++port on 65535 gives 0, and port <= MAX_PORT_NUMBER compares *)
(* a 16-bit value with 65535.                                              *)
(***************************************************************************)
MAX_PORT_NUMBER == 65535
Uint16Values == 65536

StartPorts == {MAX_PORT_NUMBER - 1, MAX_PORT_NUMBER}
\* ports that may be free: 0 (the kernel picks one), 1, and the last two
FreePortChoices == SUBSET {0, 1, MAX_PORT_NUMBER - 1, MAX_PORT_NUMBER}

portFrame ==
  <<procVars, cfgObj, files, cfgGhost, cfgLastSet, cfgCalls, cfgWrites, argv,
    got, semVars, stdVars, infrVars, xdgVars>>

\* for (uint16_t port = port_number; ...
FindAvailablePort ==
  /\ fapPc = "idle"
  /\ fapPc' = "loop"
  /\ port' = port_number
  /\ UNCHANGED <<port_number, bindable, socket_ok, fapRet, portFrame>>

\* one test of the loop condition and, when it holds, one pass of the body
\* followed by ++port
LoopIteration ==
  /\ fapPc = "loop"
  /\ IF port <= MAX_PORT_NUMBER
       THEN IF socket_ok /\ port \in bindable
              THEN /\ fapPc' = "returned"
                   /\ fapRet' = port
                   /\ port' = port
              ELSE /\ port' = (port + 1) % Uint16Values
                   /\ UNCHANGED <<fapPc, fapRet>>
       ELSE /\ fapPc' = "returned"
            /\ fapRet' = 0
            /\ port' = port
  /\ UNCHANGED <<port_number, bindable, socket_ok, portFrame>>

NextPort == FindAvailablePort \/ LoopIteration

InitPort ==
  /\ InitProc
  /\ InitConfigObject
  /\ files = [p \in FilePaths |-> Absent]
  /\ argv = <<>>
  /\ got = NotRead
  /\ InitNoSemaphore
  /\ port_number \in StartPorts
  /\ socket_ok \in BOOLEAN
  /\ bindable \in (IF socket_ok THEN FreePortChoices ELSE {{}})
  /\ port = 0
  /\ fapPc = "idle"
  /\ fapRet = 0
  /\ InitStandaloneObject
  /\ InitInfrConfig
  /\ InitNoEnvironment

SpecPort == InitPort /\ [][NextPort]_vars

\* the call is made and the calling thread keeps running
FairSpecPort == SpecPort /\ WF_vars(NextPort)

(***************************************************************************)
(* The standalone comm::Config (comm_config.cpp): load_from_file,          *)
(* merge_from_file and load_xdg_hierarchy on the files of the file system  *)
(***************************************************************************)
MaxStdCalls == 3

stdFrame ==
  <<procVars, cfgObj, files, cfgGhost, cfgLastSet, cfgCalls, cfgWrites, argv,
    got, semVars, portVars, infrVars, xdgVars>>

\* the base table is replaced wholesale by a same-named table of source
merge_tables_Shallow(target, source) ==
  TableValue(
    [k \in (DOMAIN target.t) \cup (DOMAIN source.t) |->
       IF k \in DOMAIN source.t THEN source.t[k] ELSE target.t[k]])

\* the lambda merge_tables of merge_from_file: target after the loop
RECURSIVE merge_tables(_, _)
merge_tables(target, source) ==
  TableValue(
    [k \in (DOMAIN target.t) \cup (DOMAIN source.t) |->
       IF k \in DOMAIN source.t
         THEN IF /\ is_table(source.t[k])
                 /\ k \in DOMAIN target.t
                 /\ is_table(target.t[k])
                THEN merge_tables(target.t[k], source.t[k])
                ELSE source.t[k]
         ELSE target.t[k]])

\* the tree and the error code after load_from_file on a file's content
LoadFromFile(d, content) ==
  IF content.kind = "absent" THEN [data |-> d, ret |-> "FileNotFound"]
  ELSE IF content.kind = "invalid" THEN [data |-> d, ret |-> "ParseError"]
  ELSE [data |-> content.doc, ret |-> "Success"]

\* the tree and the error code after merge_from_file on a file's content
MergeFromFile(d, content) ==
  IF content.kind = "absent" THEN [data |-> d, ret |-> "FileNotFound"]
  ELSE IF content.kind = "invalid" THEN [data |-> d, ret |-> "ParseError"]
  ELSE [data |-> merge_tables(d, content.doc), ret |-> "Success"]

\* loaded_any is set for every file that exists, whether it parsed or not
LoadXdgHierarchy_ExistingCounts(d, sys, usr) ==
  LET first == IF sys.kind # "absent"
                 THEN LoadFromFile(d, sys)
                 ELSE [data |-> d, ret |-> "skipped"]
      second == IF usr.kind # "absent"
                  THEN MergeFromFile(first.data, usr)
                  ELSE [data |-> first.data, ret |-> "skipped"]
      loaded_any == sys.kind # "absent" \/ usr.kind # "absent"
  IN  [data |-> second.data,
       ret |-> IF loaded_any THEN "Success" ELSE "FileNotFound"]

\* the tree and the error code after load_xdg_hierarchy, for the contents
\* of the system file and of the user file
LoadXdgHierarchy(d, sys, usr) ==
  LET first == IF sys.kind # "absent"
                 THEN LoadFromFile(d, sys)
                 ELSE [data |-> d, ret |-> "skipped"]
      second == IF usr.kind # "absent"
                  THEN MergeFromFile(first.data, usr)
                  ELSE [data |-> first.data, ret |-> "skipped"]
      loaded_any == first.ret = "Success" \/ second.ret = "Success"
  IN  [data |-> second.data,
       ret |-> IF loaded_any THEN "Success" ELSE "FileNotFound"]

StdCalled(op, path, result) ==
  /\ Len(stdCalls) < MaxStdCalls
  /\ impl_data' = result.data
  /\ stdCalls' = Append(stdCalls, [op |-> op, path |-> path,
                                   ret |-> result.ret])
  /\ UNCHANGED stdFrame

load_from_file(file_path) ==
  StdCalled("load_from_file", file_path, LoadFromFile(impl_data, files[file_path]))

merge_from_file(file_path) ==
  StdCalled("merge_from_file", file_path,
            MergeFromFile(impl_data, files[file_path]))

\* system_config_path is not given; the user file is resolved from the
\* environment
load_xdg_hierarchy(app_name) ==
  StdCalled("load_xdg_hierarchy", CandidatePaths(app_name),
            LoadXdgHierarchy(impl_data, files[CandidatePaths(app_name)[1]],
                             files[CandidatePaths(app_name)[2]]))

StandalonePaths == {CandidatePaths(n)[i] : n \in AppNames, i \in 1 .. 2}

NextStandalone ==
  \/ \E p \in StandalonePaths : load_from_file(p)
  \/ \E p \in StandalonePaths : merge_from_file(p)
  \/ \E n \in AppNames : load_xdg_hierarchy(n)

InitStandalone ==
  /\ InitProc
  /\ InitConfigObject
  /\ argv = <<>>
  /\ got = NotRead
  /\ InitNoSemaphore
  /\ InitNoPort
  /\ InitStandaloneObject
  /\ InitInfrConfig
  /\ InitNoEnvironment
  /\ files \in [FilePaths -> StartupContents]
  /\ \A p \in SingleFiles : files[p] = Absent

SpecStandalone == InitStandalone /\ [][NextStandalone]_vars

(***************************************************************************)
(* infr::InfrConfig on top of the configuration service: Initialize, and   *)
(* the service's Reload calling the listener that Initialize registered    *)
(***************************************************************************)
MaxInfrInitCalls == 3

infrFrame == <<procVars, files, cfgWrites, argv, got, semVars, portVars,
               stdVars, xdgVars>>

\* the listener InfrConfig::Initialize registers: [this]() { OnConfigReload(); }
OnConfigReloadListener == "OnConfigReload"

\* [infr_main] port = 9000
DocInfrPort ==
  TableValue([k \in {Key_infr_main} |->
                TableValue([j \in {Key_port} |-> IntegerValue(9000)])])

InfrFileContents == {Absent, Toml(EmptyTable), Toml(DocInfrPort)}

\* the guard of Initialize is missing: every call loads and registers
AlreadyInitialized_Never == FALSE

\* if (m_initialized) return;
AlreadyInitialized == infr_initialized

\* InfrConfig::Initialize: Reload() of the cache, registration on the
\* service, m_initialized = true
InfrConfigInitialize ==
  /\ infrInitCalls < MaxInfrInitCalls
  /\ infrInitCalls' = infrInitCalls + 1
  /\ IF AlreadyInitialized
       THEN UNCHANGED <<infr_initialized, m_config, m_reload_listeners>>
       ELSE /\ m_config' = Get(m_data, Key_infr_main)
            /\ m_reload_listeners' =
                 Append(m_reload_listeners, OnConfigReloadListener)
            /\ infr_initialized' = TRUE
  /\ UNCHANGED <<infrFrame, onConfigReloads, m_listeners, infrSeen,
                 m_initialized, m_app_name, m_config_paths, m_data,
                 m_overrides, cfgGhost, cfgLastSet, cfgCalls>>

MaxInfrListeners == 2

InfrListeners == {"display", "network"}

\* InfrConfig::RegisterReloadListener: m_listeners.push_back(listener)
InfrRegisterReloadListener(listener) ==
  /\ Len(m_listeners) < MaxInfrListeners
  /\ m_listeners' = Append(m_listeners, listener)
  /\ UNCHANGED <<infrFrame, infr_initialized, m_config, infrInitCalls,
                 onConfigReloads, infrSeen, cfgObj, cfgGhost, cfgLastSet,
                 cfgCalls>>

\* InfrConfig::NotifyListeners: every listener of the copy is called in
\* registration order; a listener that calls Get() reads the cache as it is
\* then (`previous` is the cache the notification started from)
NotifyListeners(cache, previous, listeners) ==
  [i \in 1 .. Len(listeners) |->
     [listener |-> listeners[i], saw |-> cache, previous |-> previous]]

\* OnConfigReload that notifies before it reloads the cache
OnConfigReload_NotifyFirst(cache, data, listeners) ==
  [m_config |-> Get(data, Key_infr_main),
   seen |-> NotifyListeners(cache, cache, listeners)]

\* InfrConfig::OnConfigReload: Reload(); NotifyListeners();
OnConfigReload(cache, data, listeners) ==
  LET new_config == Get(data, Key_infr_main)
  IN [m_config |-> new_config,
      seen |-> NotifyListeners(new_config, cache, listeners)]

\* n calls of OnConfigReload, one after the other
RECURSIVE OnConfigReloadCalls(_, _, _, _)
OnConfigReloadCalls(n, cache, data, listeners) ==
  IF n = 0 THEN [m_config |-> cache, seen |-> <<>>]
  ELSE LET first == OnConfigReload(cache, data, listeners)
           rest == OnConfigReloadCalls(n - 1, first.m_config, data, listeners)
       IN [m_config |-> rest.m_config, seen |-> first.seen \o rest.seen]

\* number of calls of the InfrConfig listener among the calls made
RECURSIVE CountOnConfigReload(_)
CountOnConfigReload(called) ==
  IF called = <<>> THEN 0
  ELSE (IF Head(called) = OnConfigReloadListener THEN 1 ELSE 0)
         + CountOnConfigReload(Tail(called))

\* Config::Reload with its listeners run: every call of OnConfigReload
\* reloads the cache from the tree the service now holds
ReloadNotifyingInfr ==
  /\ ReloadConfig
  /\ onConfigReloads' = CountOnConfigReload(cfgNotified')
  /\ LET run == OnConfigReloadCalls(onConfigReloads', m_config, m_data',
                                    m_listeners)
     IN /\ m_config' = run.m_config
        /\ infrSeen' = run.seen
  /\ UNCHANGED <<infrFrame, infr_initialized, infrInitCalls, m_listeners>>

NextInfr ==
  \/ \E p \in SingleFiles : Load(p)
  \/ InfrConfigInitialize
  \/ \E l \in InfrListeners : InfrRegisterReloadListener(l)
  \/ ReloadNotifyingInfr
  \/ \E p \in SingleFiles, c \in InfrFileContents : WriteFile(p, c)

InitInfr ==
  /\ InitProc
  /\ InitConfigObject
  /\ InitUtil
  /\ \E c \in InfrFileContents :
       files = [p \in FilePaths |-> IF p \in SingleFiles THEN c ELSE Absent]

SpecInfr == InitInfr /\ [][NextInfr]_vars

(***************************************************************************)
(* The user configuration path as the configuration service and as the     *)
(* standalone Config resolve it from the environment                       *)
(***************************************************************************)
\* strings as sequences: "/x" (absolute), "x" (relative), "" (set, empty)
XdgConfigHomes ==
  {EnvUnset, EnvSet(<<"/", "x">>), EnvSet(<<"x">>), EnvSet(<<>>)}

\* "/h" and "/p"
Homes == {EnvUnset, EnvSet(<<"/", "h">>)}
PwDirs == {EnvUnset, EnvSet(<<"/", "p">>)}

XdgAppNames == {"app", "tool"}

\* std::string + "/" + ... : plain concatenation
Concat(a, b) == a \o b

\* std::filesystem::path operator/ with a relative right-hand side: the
\* separator is inserted unless the left-hand side is empty
PathAppend(p, q) == IF p = <<>> THEN q ELSE p \o <<"/">> \o q

\* Config::GetXdgConfigHome (configuration service)
GetXdgConfigHome(xdg, home, pw) ==
  IF xdg # EnvUnset /\ xdg.s # <<>> /\ Head(xdg.s) = "/" THEN xdg.s
  ELSE IF home # EnvUnset THEN Concat(home.s, <<"/", ".config">>)
  ELSE IF pw # EnvUnset THEN Concat(pw.s, <<"/", ".config">>)
  ELSE <<"/", "tmp", "/", ".config">>

\* GetXdgConfigHome() + "/" + app_name + "/config.toml"
ServiceUserPath(xdg, home, pw, app_name) ==
  Concat(GetXdgConfigHome(xdg, home, pw),
         <<"/", app_name, "/", "config.toml">>)

\* the user_config of the standalone load_xdg_hierarchy; <<>> when neither
\* variable is set (the user file is then skipped)
StandaloneUserConfig(xdg, home, app_name) ==
  IF xdg # EnvUnset
    THEN PathAppend(PathAppend(xdg.s, <<app_name>>), <<"config.toml">>)
  ELSE IF home # EnvUnset
    THEN PathAppend(PathAppend(PathAppend(home.s, <<".config">>),
                               <<app_name>>),
                    <<"config.toml">>)
  ELSE <<>>

xdgFrame ==
  <<procVars, cfgObj, files, cfgGhost, cfgLastSet, cfgCalls, cfgWrites, argv,
    got, semVars, portVars, stdVars, infrVars, env_XDG_CONFIG_HOME, env_HOME,
    pw_dir>>

\* the service's Initialize(app_name) builds its second candidate path
ResolveServiceUserPath(app_name) ==
  /\ candidate_user_path = NotResolved
  /\ candidate_user_path' =
       [kind |-> "path", app_name |-> app_name,
        path |-> ServiceUserPath(env_XDG_CONFIG_HOME, env_HOME, pw_dir,
                                 app_name)]
  /\ UNCHANGED <<xdgFrame, user_config>>

\* the standalone load_xdg_hierarchy(app_name) builds user_config
ResolveStandaloneUserConfig(app_name) ==
  /\ user_config = NotResolved
  /\ user_config' =
       [kind |-> "path", app_name |-> app_name,
        path |-> StandaloneUserConfig(env_XDG_CONFIG_HOME, env_HOME,
                                      app_name)]
  /\ UNCHANGED <<xdgFrame, candidate_user_path>>

NextXdg ==
  \/ \E n \in XdgAppNames : ResolveServiceUserPath(n)
  \/ \E n \in XdgAppNames : ResolveStandaloneUserConfig(n)

InitXdg ==
  /\ InitProc
  /\ InitConfigObject
  /\ files = [p \in FilePaths |-> Absent]
  /\ argv = <<>>
  /\ got = NotRead
  /\ InitNoSemaphore
  /\ InitNoPort
  /\ InitStandaloneObject
  /\ InitInfrConfig
  /\ env_XDG_CONFIG_HOME \in XdgConfigHomes
  /\ env_HOME \in Homes
  /\ pw_dir \in PwDirs
  /\ candidate_user_path = NotResolved
  /\ user_config = NotResolved

SpecXdg == InitXdg /\ [][NextXdg]_vars

(***************************************************************************)
(* Properties of the process                                               *)
(***************************************************************************)
InWait == mainPc \in {"wait_acquire", "wait_sleep", "wait_join"}

AfterMainReturned ==
  mainPc \in {"dtor_ev", "dtor_ev_join", "dtor_sig", "dtor_sig_join", "exited"}

NoSignalSeen == pending = {} /\ termSignal = "none" /\ hupReceived = 0

\* C1: once Start() has succeeded and sigwait has returned SIGTERM, SIGINT or
\* SIGQUIT, a WaitForTermination in progress eventually returns, and the value
\* it returns is exactly "Termination request", "Interactive attention signal"
\* or "Quit" respectively.
C1_ReasonReturned ==
  /\ [](waitResult # "<none>" =>
          /\ termSignal = "SIGTERM" => waitResult = "Termination request"
          /\ termSignal = "SIGINT" => waitResult = "Interactive attention signal"
          /\ termSignal = "SIGQUIT" => waitResult = "Quit")
  /\ (termSignal \in TermSignals /\ InWait) ~> (waitResult # "<none>")

C1_Witness ==
  /\ termSignal = "SIGINT"
  /\ waitResult = "Interactive attention signal"
  /\ mainPc = "infr_deinit"

\* C2: a SIGHUP never sets the termination reason nor ends the signal loop,
\* no listener runs twice for one SIGHUP, and when WaitForTermination has
\* returned (so every SIGHUP was received before shutdown began) and the event
\* processor has finished, every SIGHUP returned by sigwait has been dispatched
\* exactly once to every listener registered before it (k SIGHUPs, k
\* invocations).
C2_EverySighupDispatched ==
  /\ (curSignal = "SIGHUP" =>
        /\ sigPc \in {"hup_notify", "hup_push", "sigwait"}
        /\ waitResult = "<none>")
  /\ (termSignal = "none" => m_terminate_reason = "")
  /\ \A i \in ListenerSlots, k \in 1 .. MaxEnvSteps : invoked[<<i, k>>] <= 1
  /\ (evPc = "done" /\ waitResult # "<none>" =>
        \A i \in 1 .. Len(regHup), k \in 1 .. hupReceived :
          regHup[i] < k => invoked[<<i, k>>] = 1)

\* C3: after TerminateApp() with no signal sent to the process, a
\* WaitForTermination in progress eventually returns.
C3_TerminateAppEndsWait ==
  (termAppCalled /\ InWait /\ NoSignalSeen)
    ~> (waitResult # "<none>" \/ ~NoSignalSeen)

\* C4: when a second SIGINT is sent after the first one was received and
\* before the process has exited, the process exits with status 130.
C4_SecondSigintExits130 ==
  (secondSigintEarly /\ procState = "exited") => exitCode = 130

FullOrder == <<"CommInit", "InfrInit", "Wait", "InfrDeinit", "CommDeinit">>

\* C5: when both initialisations succeed, main calls Common init, Infra init,
\* WaitForTermination, Infra deinit, Common deinit in this order, and once main
\* has returned all five calls were made and the exit status is 0, whether or
\* not a deinitialisation reported an error.
C5_CallOrder ==
  (commInitOk = "ok" /\ infrInitOk = "ok") =>
    /\ Len(calls) <= Len(FullOrder)
    /\ calls = SubSeq(FullOrder, 1, Len(calls))
    /\ (AfterMainReturned => calls = FullOrder /\ exitCode = 0)

C5_Witness ==
  /\ procState = "exited"
  /\ commInitOk = "ok" /\ infrInitOk = "ok"
  /\ deinitFailed
  /\ calls = FullOrder

\* C6: when Common init fails nothing else is called, when Infra init fails
\* neither WaitForTermination nor a deinit is called, the exit status is 1 in
\* both cases, and in both cases the process eventually terminates.
C6_InitFailureTerminates ==
  /\ [](commInitOk = "fail" => calls = <<"CommInit">>)
  /\ [](infrInitOk = "fail" => calls = <<"CommInit", "InfrInit">>)
  /\ []((commInitOk = "fail" \/ infrInitOk = "fail") /\ AfterMainReturned
          => exitCode = 1)
  /\ (commInitOk = "fail") ~> (procState = "exited")
  /\ (infrInitOk = "fail") ~> (procState = "exited")

(***************************************************************************)
(* Properties of the configuration singleton                               *)
(***************************************************************************)
NoValue == [kind |-> "none"]

\* the node of the tree at a key path, NoValue when there is none
RECURSIVE ValueAt(_, _)
ValueAt(node, keys) ==
  IF keys = <<>> THEN node
  ELSE IF is_table(node) /\ Head(keys) \in DOMAIN node.t
    THEN ValueAt(node.t[Head(keys)], Tail(keys))
  ELSE NoValue

\* the typed values the override strings of the model stand for
TypedForm(raw) ==
  CASE raw = <<"4", "2">>      -> IntegerValue(42)
    [] raw = <<"1", ".", "5">> -> FloatingValue(15, 1)

IsProperPrefix(p, q) == Len(p) < Len(q) /\ SubSeq(q, 1, Len(p)) = p

\* another override was set on a node above or below the node of path
Shadowed(path) ==
  \E other \in DOMAIN cfgLastSet :
    \/ IsProperPrefix(SplitPath(other), SplitPath(path))
    \/ IsProperPrefix(SplitPath(path), SplitPath(other))

ReloadSucceeded == cfgOp = "Reload" /\ cfgRet = "Success"

C8_FailedReloadKeepsTree ==
  (cfgOp = "Reload" /\ cfgRet # "Success" /\ cfgPre.m_initialized) =>
    /\ cfgNotified = <<>>
    /\ m_data = cfgPre.m_data

\* C9: Reload called before any successful Initialize or Load returns
\* NotInitialized, invokes no listener and leaves the tree, the path list,
\* the override map and the listener list as they were.
C9_ReloadBeforeInit ==
  (cfgOp = "Reload" /\ ~cfgPre.m_initialized) =>
    /\ cfgRet = "NotInitialized"
    /\ cfgNotified = <<>>
    /\ m_data = cfgPre.m_data
    /\ m_config_paths = cfgPre.m_config_paths
    /\ m_overrides = cfgPre.m_overrides
    /\ m_reload_listeners = cfgPre.m_reload_listeners

C9_Witness ==
  /\ cfgOp = "Reload"
  /\ ~cfgPre.m_initialized
  /\ cfgPre.m_config_paths # <<>>
  /\ m_reload_listeners # <<>>

\* C10: a successful Reload calls the registered listeners once per
\* registration, in registration order, also after a listener that raised.
C10_ListenersNotifiedInOrder ==
  ReloadSucceeded => cfgNotified = cfgPre.m_reload_listeners

C10_Witness ==
  /\ ReloadSucceeded
  /\ cfgNotified = <<"cbThrows", "cbThrows">>

LoadOperations == {"Initialize", "Load", "Reload"}

\* C12: in the state a call of Initialize, Load or Reload leaves, whether or
\* not any configuration file exists, the root of the tree GetData() returns
\* is a table; Initialize with no candidate file leaves an empty table.
C12_RootIsTableAfterLoad ==
  cfgOp \in LoadOperations => is_table(m_data)

\* the last successful load operation was Load(path) of a single file
SourceIsSingleFile(paths) ==
  Len(paths) = 1 /\ paths[1] \in SingleFiles

\* C13: a Reload that follows a successful Load(path), whatever preceded the
\* Load (an Initialize(app_name) too), re-parses that one path and does not
\* resolve the XDG hierarchy again: when it succeeds the path is still the
\* sole reload source.
C13_ReloadAfterLoadReparsesPath ==
  (/\ cfgOp = "Reload"
   /\ cfgPre.m_initialized
   /\ SourceIsSingleFile(cfgPre.m_config_paths)
   /\ cfgRet = "Success")
  => m_config_paths = cfgPre.m_config_paths

\* C14: after a successful Initialize(app_name) every Reload resolves the
\* system and the user path again, also when no candidate file existed at
\* Initialize: it is never refused as "not initialized".
C14_ReloadAfterInitializeResolves ==
  (/\ cfgOp = "Reload"
   /\ cfgPre.m_initialized
   /\ m_app_name # ""
   /\ ~SourceIsSingleFile(cfgPre.m_config_paths))
  => cfgRet # "NotInitialized"

(***************************************************************************)
(* Properties of the type inference                                        *)
(***************************************************************************)
UpperCase == <<"A", "E", "F", "L", "R", "S", "T", "U">>
LowerCase == <<"a", "e", "f", "l", "r", "s", "t", "u">>

ToLower(c) ==
  IF \E i \in 1 .. Len(UpperCase) : UpperCase[i] = c
    THEN LowerCase[CHOOSE i \in 1 .. Len(UpperCase) : UpperCase[i] = c]
    ELSE c

Lowered(raw) == [i \in 1 .. Len(raw) |-> ToLower(raw[i])]

AllDigits(s) == s # <<>> /\ \A i \in 1 .. Len(s) : IsDigit(s[i])

\* [sign] digits
WholeInteger(raw) == AllDigits(Drop(raw, SignLen(raw)))

\* [sign] digits [. [digits]]  or  [sign] . digits
WholeDouble(raw) ==
  LET body == Drop(raw, SignLen(raw))
  IN \/ AllDigits(body)
     \/ \E i \in 1 .. Len(body) :
          /\ body[i] = "."
          /\ Len(body) > 1
          /\ i > 1 => AllDigits(SubSeq(body, 1, i - 1))
          /\ i < Len(body) => AllDigits(Drop(body, i))

\* the digits of raw without its sign and its point
Digits(raw) == SelectSeq(raw, IsDigit)

FractionLen(raw) ==
  Len(raw) - (CHOOSE i \in 1 .. Len(raw) : raw[i] = ".")

\* the documented priority: boolean in any letter case, then integer, then
\* double, then the string itself
DocumentedType(raw) ==
  IF Lowered(raw) = <<"t", "r", "u", "e">> THEN BooleanValue(TRUE)
  ELSE IF Lowered(raw) = <<"f", "a", "l", "s", "e">> THEN BooleanValue(FALSE)
  ELSE IF WholeInteger(raw)
    THEN IntegerValue(Signed(raw, DigitsValue(Digits(raw), 0)))
  ELSE IF WholeDouble(raw)
    THEN FloatingValue(Signed(raw, DigitsValue(Digits(raw), 0)),
                       FractionLen(raw))
  ELSE StringValue(raw)

\* C15: the value SetOverride stores at a path has the type inferred from
\* the raw string: boolean when it equals true or false in any letter case,
\* otherwise integer when the whole string parses as one, otherwise double
\* when the whole string parses as one, otherwise the string verbatim.
C15_OverrideTypeInferred ==
  \A path \in DOMAIN cfgLastSet :
    ValueAt(m_data, SplitPath(path)) = DocumentedType(cfgLastSet[path])

(***************************************************************************)
(* Properties of the command line                                          *)
(***************************************************************************)
\* argument i is a --set flag: it has a successor and is not itself the
\* token of the flag before it
RECURSIVE IsSetFlag(_)
IsSetFlag(i) ==
  /\ argv[i] = SetFlag
  /\ i < Len(argv)
  /\ ~(i > 1 /\ IsSetFlag(i - 1))

\* at least one character before and one after the first '='
WellFormed(token) ==
  \E e \in 2 .. (Len(token) - 1) :
    token[e] = "=" /\ \A j \in 1 .. (e - 1) : token[j] # "="

\* positions of the tokens Init accepts as overrides
Accepted ==
  {i \in 2 .. Len(argv) : IsSetFlag(i - 1) /\ WellFormed(argv[i])}

KeyOf(token) == SubSeq(token, 1, FindEq(token) - 1)
ValueOf(token) == Drop(token, FindEq(token))

\* the override at j acts on the node of the override at i, or above or
\* below it
Touches(j, i) ==
  LET kj == SplitPath(KeyOf(argv[j]))
      ki == SplitPath(KeyOf(argv[i]))
  IN kj = ki \/ IsProperPrefix(kj, ki) \/ IsProperPrefix(ki, kj)

MainInitSucceeded == cfgOp = "Main::init" /\ cfgRet = "Success"

\* the overrides Init applied are the accepted tokens, the last one per key
AcceptedApplied ==
  /\ DOMAIN cfgLastSet = {KeyOf(argv[i]) : i \in Accepted}
  /\ \A i \in Accepted :
       (\A j \in Accepted : j > i => KeyOf(argv[j]) # KeyOf(argv[i]))
       => cfgLastSet[KeyOf(argv[i])] = ValueOf(argv[i])

\* an accepted override that no later one touches is in the tree
LastValueWins ==
  \A i \in Accepted :
    (\A j \in Accepted : j > i => ~Touches(j, i))
    => ValueAt(m_data, SplitPath(KeyOf(argv[i])))
         = DocumentedType(ValueOf(argv[i]))

\* C16: Init of the Common layer applies the --set overrides in the order
\* of the arguments, so that the last value given for a key wins; a token
\* after --set is accepted only with at least one character before and one
\* after its first '=', and a malformed token is skipped without effect on
\* the other overrides.
C16_OverridesAppliedInOrder ==
  MainInitSucceeded => AcceptedApplied /\ LastValueWins

(***************************************************************************)
(* Properties of the typed read                                            *)
(***************************************************************************)
\* the node of the tree at infr_main.<field>
InfrNode(key) == ValueAt(m_data, <<Key_infr_main, key>>)

\* the fields of the struct read, as values of the tree's types
GotValue ==
  [k \in InfrKeys |->
     IF k = Key_device_name THEN StringValue(got.device_name)
     ELSE IF k = Key_port THEN IntegerValue(got.port)
     ELSE IF k = Key_enable_logging THEN BooleanValue(got.enable_logging)
     ELSE FloatingValue(got.timeout_seconds.m, got.timeout_seconds.e)]

\* the field equals the value of the tree; a whole number of the tree
\* equals the double of the same value
FieldEquals(node, field) ==
  \/ node = field
  \/ /\ node.kind = "integer"
     /\ field.kind = "floating"
     /\ field = FloatingValue(node.i, 0)

FieldRead(key) ==
  IF InfrNode(key) = NoValue
    THEN GotValue[key] = defaults[key[1]]
    ELSE FieldEquals(InfrNode(key), GotValue[key])

\* C17: Get<InfrMainConfig>("infr_main") returns a fully populated value:
\* each of device_name, port, enable_logging and timeout_seconds equals the
\* value of the tree at infr_main.<field> when that key is present and the
\* default ("default_device", 8080, true, 30.0) when it is absent, also when
\* the section or the whole tree is absent.
C17_GetReturnsTreeOrDefault ==
  cfgOp = "Get" => \A key \in InfrKeys : FieldRead(key)

(***************************************************************************)
(* Properties of the semaphores                                            *)
(***************************************************************************)
\* C18: the counter of the counting Semaphore is never negative, the Wait
\* calls that returned never outnumber the initial count plus the Signal
\* calls made, and no Wait returns while the counter is zero: every return
\* took one unit that was there.
C18_SemaphoreCounts ==
  /\ m_counter >= 0
  /\ semReturns <= semInitial + semSignals
  /\ m_counter = semInitial + semSignals - semReturns

\* one Wait returned on a unit, another is blocked at counter zero
C18_Witness ==
  /\ semReturns >= 1
  /\ m_counter = 0
  /\ Blocked(semPc) # {}
  /\ semSignals >= 1

\* threads inside Wait that have not returned
InsideWait == {t \in Waiters : semPc[t] \in {"waiting", "woken"}}

\* C19: no wake-up is lost: when as many units were signalled as there are
\* Wait calls, in any interleaving, every Wait returns: no thread stays
\* inside Wait for ever while the counter covers all the threads inside.
C19_NoLostWakeup ==
  \A t \in Waiters :
    []<>(t \notin InsideWait \/ m_counter < Cardinality(InsideWait))

\* no initial unit, as many Signal calls as threads, every Wait has returned
C19_Witness ==
  /\ semInitial = 0
  /\ semSignals = MaxWaiters
  /\ semReturns = MaxWaiters
  /\ \A t \in Waiters : semPc[t] = "done"

\* the step in which the Wait(timeout) of thread t returns
WaitReturns(t) == semPc[t] # "idle" /\ semPc'[t] = "idle"

\* C20: a TimeoutSemaphore::Wait(timeout) that returns false leaves the
\* counter as it is, one that returns true decrements it by exactly one,
\* the counter is never negative, and a Wait that finds no unit until its
\* timeout returns false.
C20_TimeoutWaitEffect ==
  /\ [](m_counter >= 0)
  /\ [][\A t \in Waiters :
          WaitReturns(t) =>
            /\ semResult'[t] \in {"true", "false"}
            /\ semResult'[t] = "true" => m_counter' = m_counter - 1
            /\ semResult'[t] = "false" => m_counter' = m_counter
            /\ m_counter = 0 => semResult'[t] = "false"]_vars

\* one Wait timed out at counter zero, then another took the unit signalled
C20_Witness ==
  /\ semInitial = 0
  /\ semSignals = 1
  /\ m_counter = 0
  /\ \E t, u \in Waiters : semResult[t] = "false" /\ semResult[u] = "true"

(***************************************************************************)
(* Properties of the start of the service                                  *)
(***************************************************************************)
SystemFile == files[CandidatePaths(m_app_name)[1]]
UserFile == files[CandidatePaths(m_app_name)[2]]

\* r is the merge of sys followed by usr, as the documentation words it
RECURSIVE IsMergeOf(_, _, _)
IsMergeOf(r, sys, usr) ==
  /\ is_table(r)
  /\ DOMAIN r.t = (DOMAIN sys.t) \cup (DOMAIN usr.t)
  /\ \A k \in DOMAIN r.t :
       IF k \in DOMAIN sys.t /\ k \in DOMAIN usr.t
         THEN IF is_table(sys.t[k]) /\ is_table(usr.t[k])
                THEN IsMergeOf(r.t[k], sys.t[k], usr.t[k])
                ELSE r.t[k] = usr.t[k]
         ELSE IF k \in DOMAIN usr.t
           THEN r.t[k] = usr.t[k]
           ELSE r.t[k] = sys.t[k]

\* C11: after Initialize(app_name) succeeded with the system and the user
\* file both present, the tree is the recursive merge of the system file
\* followed by the user file: tables present in both are merged key by key,
\* otherwise the user file's value wins, and keys of one file only are kept.
C11_InitializeMergesBothFiles ==
  (/\ cfgOp = "Initialize"
   /\ cfgRet = "Success"
   /\ SystemFile.kind = "toml"
   /\ UserFile.kind = "toml")
  => IsMergeOf(m_data, SystemFile.doc, UserFile.doc)

\* Initialize merged [a.b] c = 1 with [a] c = 4, [a.b] a = 2: two levels of
\* tables merged, keys of both files kept
C11_Witness ==
  /\ cfgOp = "Initialize"
  /\ cfgRet = "Success"
  /\ SystemFile = Toml(DocDeep)
  /\ UserFile = Toml(DocDeepOther)
  /\ ValueAt(m_data, <<Key_a, Key_b, Key_c>>) = IntegerValue(1)
  /\ ValueAt(m_data, <<Key_a, Key_b, Key_a>>) = IntegerValue(2)
  /\ ValueAt(m_data, <<Key_a, Key_c>>) = IntegerValue(4)

(***************************************************************************)
(* Properties of FindAvailablePort                                         *)
(***************************************************************************)
PortRange == port_number .. MAX_PORT_NUMBER

Returned == fapPc = "returned"

\* C21: FindAvailablePort(startPort) terminates for every startPort and
\* every set of bindable ports, also when every socket() call fails, and
\* returns 0 when no port of startPort .. 65535 can be bound.
C21_FindAvailablePortTerminates ==
  /\ <>Returned
  /\ [](Returned /\ (~socket_ok \/ bindable \cap PortRange = {})
          => fapRet = 0)

\* C22: a non-zero result P lies in startPort .. 65535 and is the lowest
\* port of that range whose bind succeeded; the counter never wraps, so no
\* port below startPort is probed or returned.
C22_ResultIsLowestInRange ==
  /\ fapPc = "loop" => port \in PortRange
  /\ Returned /\ fapRet # 0 =>
       /\ fapRet \in PortRange
       /\ fapRet \in bindable
       /\ \A q \in PortRange : q \in bindable => fapRet <= q

(***************************************************************************)
(* Properties of the dispatch of reloads by the event processor            *)
(***************************************************************************)
ReloadSeqs == 1 .. MaxEnvSteps

\* the listener in slot i is called for reload k in this step
Invokes(i, k) == invoked'[<<i, k>>] # invoked[<<i, k>>]

\* C26: the event processor takes the ConfigReload events in the order they
\* were enqueued; a listener is called only for the reload being handled,
\* after the listeners registered before it in the copy, and never while a
\* later reload has started; READY=1 follows only when every listener of the
\* copy has been called; and a reload is handled only after the listeners of
\* every earlier reload have run.
C26_ReloadsHandledInOrder ==
  [][/\ (evEvent' # evEvent /\ evEvent'.type = "ConfigReload"
           => evEvent'.seq = evEvent.seq + 1)
     /\ \A i \in ListenerSlots, k \in ReloadSeqs :
          Invokes(i, k) =>
            /\ evEvent = ConfigReload(k)
            /\ i <= Len(listeners_copy)
            /\ \A j \in 1 .. (i - 1) : invoked[<<j, k>>] >= 1
            /\ \A k2 \in ReloadSeqs, j \in ListenerSlots :
                 k2 > k => invoked[<<j, k2>>] = 0
            /\ \A k1 \in ReloadSeqs, j \in 1 .. Len(regHup) :
                 k1 < k /\ regHup[j] < k1 => invoked[<<j, k1>>] >= 1
     /\ (evPc = "invoke" /\ evPc' # "invoke"
           => \A i \in 1 .. Len(listeners_copy) :
                invoked[<<i, evEvent.seq>>] >= 1)]_vars

\* two reloads were queued and both dispatched to the first listener
C26_Witness ==
  /\ hupReceived = 2
  /\ invoked[<<1, 1>>] = 1
  /\ invoked[<<1, 2>>] = 1
  /\ evEvent = ConfigReload(2)
  /\ evPc = "relock"

\* C27: the termination reason is written at most once in a run: the only
\* write is made by the signal-wait thread for a termination signal, on the
\* still empty reason, as the last thing before the thread leaves its loop;
\* no other step (TerminateApp included) changes it, and after
\* WaitForTermination has returned it, it equals the returned value and never
\* changes.
C27_ReasonWrittenOnce ==
  [][/\ (m_terminate_reason' # m_terminate_reason
           => /\ m_terminate_reason = ""
              /\ curSignal \in TermSignals
              /\ sigPc = "reason"
              /\ sigPc' = "release"
              /\ waitResult = "<none>")
     /\ (sigPc = "reason" /\ sigPc' # "reason"
           => m_terminate_reason = "" /\ m_terminate_reason' # "")
     /\ (waitResult # "<none>"
           => /\ waitResult = m_terminate_reason
              /\ m_terminate_reason' = m_terminate_reason)]_vars

\* TerminateApp was called, then SIGQUIT arrived; the reason returned is the
\* signal's
C27_Witness ==
  /\ termAppCalled
  /\ termSignal = "SIGQUIT"
  /\ waitResult = "Quit"
  /\ m_terminate_reason = "Quit"

ReadyEmitted(k) ==
  evEvent = ConfigReload(k) /\ evPc \notin {"handle", "invoke"}

\* C29: a listener that throws does not end the dispatch: the step that
\* called it goes on with the next listener of the same copy, READY=1 is
\* emitted only with every listener of the copy called, and the event
\* processor ends only on a Shutdown event or on the stop flag.
C29_ThrowingListenerIsolated ==
  /\ [][\A i \in ListenerSlots, k \in ReloadSeqs :
          Invokes(i, k) /\ listeners_copy[i] = "cbThrows"
            => /\ evPc' = "invoke"
               /\ evIdx' = i + 1
               /\ listeners_copy' = listeners_copy
               /\ evEvent' = evEvent]_vars
  /\ [](\A k \in ReloadSeqs :
          ReadyEmitted(k)
            => \A i \in 1 .. Len(listeners_copy) : invoked[<<i, k>>] = 1)
  /\ [](evPc = "done"
          => evEvent.type = "Shutdown" \/ m_stop_event_processor)

\* the first listener threw, the one registered after it was still called
\* and READY=1 was emitted
C29_Witness ==
  /\ ReadyEmitted(1)
  /\ Len(listeners_copy) = 2
  /\ listeners_copy[1] = "cbThrows"
  /\ invoked[<<1, 1>>] = 1
  /\ invoked[<<2, 1>>] = 1

\* the dispatch of reload k has made its copy and not yet emitted READY=1
Dispatching(k) == evEvent = ConfigReload(k) /\ evPc = "invoke"

\* C30: the copy a dispatch makes holds every listener whose registration
\* was complete when the dispatch started, and each listener of the copy is
\* called once before READY=1, so a listener registered during a dispatch is
\* called for every later reload and at most once for the reload in
\* progress; a listener registered before a SIGHUP was received is called
\* for it; and a registration is possible at every moment of a dispatch.
C30_RegistrationDuringDispatch ==
  /\ [][evPc = "handle" /\ evPc' = "invoke"
          => listeners_copy' = m_config_reload_listeners]_vars
  /\ [](\A k \in DispatchSeqs :
          /\ ReadyEmitted(k) =>
               /\ \A i \in 1 .. Len(listeners_copy) : invoked[<<i, k>>] = 1
               /\ \A i \in 1 .. Len(regHup) :
                    regHup[i] < k => invoked[<<i, k>>] = 1
          /\ \A i \in ListenerSlots : invoked[<<i, k>>] <= 1)
  /\ [](\A k \in DispatchSeqs :
          Dispatching(k) /\ envSteps < MaxEnvSteps
            => \A cb \in Callbacks :
                 ENABLED RegisterConfigReloadListener(cb))

\* the second listener was registered while the first reload was being
\* dispatched: it was not called for that reload and was called for the next
C30_Witness ==
  /\ ReadyEmitted(2)
  /\ Len(regHup) = 2
  /\ regHup[2] = 1
  /\ invoked[<<1, 1>>] = 1
  /\ invoked[<<2, 1>>] = 0
  /\ invoked[<<1, 2>>] = 1
  /\ invoked[<<2, 2>>] = 1

\* C31: when a listener never returns, a SIGTERM, SIGINT or SIGQUIT sent to
\* the process is still handled: the signal-wait thread records the reason
\* and releases the semaphore, and WaitForTermination returns that reason.
C31_HungListenerDoesNotBlockTermination ==
  (evPc = "hung" /\ pending \cap TermSignals # {})
    ~> (/\ evPc = "hung"
        /\ waitResult # "<none>"
        /\ waitResult = m_terminate_reason
        /\ waitResult = GetSignalName(termSignal))

\* the listener hangs, a SIGHUP and then a SIGQUIT are handled, and the wait
\* returns
C31_Witness ==
  /\ evPc = "hung"
  /\ hupReceived = 2
  /\ termSignal = "SIGQUIT"
  /\ waitResult = "Quit"

(***************************************************************************)
(* Properties of the standalone Config                                     *)
(***************************************************************************)
LastStdCall == stdCalls[Len(stdCalls)]
PreviousStdCall == stdCalls[Len(stdCalls) - 1]

\* the last two calls were load_from_file and merge_from_file, both
\* successful
LoadedThenMerged ==
  /\ Len(stdCalls) >= 2
  /\ PreviousStdCall.op = "load_from_file"
  /\ PreviousStdCall.ret = "Success"
  /\ LastStdCall.op = "merge_from_file"
  /\ LastStdCall.ret = "Success"

\* C23: after load_from_file(base) and merge_from_file(override) the tree is
\* the merge of the two files: tables present in both are merged key by key,
\* any other value of the override file replaces the base value at its path,
\* and keys of the base file only keep their value.
C23_MergeFromFileMerges ==
  LoadedThenMerged
    => IsMergeOf(impl_data, files[PreviousStdCall.path].doc,
                 files[LastStdCall.path].doc)

\* [a.b] c = 1 was loaded and [a] c = 4, [a.b] a = 2 merged into it
C23_Witness ==
  /\ LoadedThenMerged
  /\ files[PreviousStdCall.path] = Toml(DocDeep)
  /\ files[LastStdCall.path] = Toml(DocDeepOther)
  /\ ValueAt(impl_data, <<Key_a, Key_b, Key_c>>) = IntegerValue(1)
  /\ ValueAt(impl_data, <<Key_a, Key_b, Key_a>>) = IntegerValue(2)
  /\ ValueAt(impl_data, <<Key_a, Key_c>>) = IntegerValue(4)

HierarchyCalled ==
  stdCalls # <<>> /\ LastStdCall.op = "load_xdg_hierarchy"

HierarchySystemFile == files[LastStdCall.path[1]]
HierarchyUserFile == files[LastStdCall.path[2]]

\* C24 as stated: load_xdg_hierarchy returns FileNotFound only if neither
\* the system file nor the user file existed, and success whenever at least
\* one of them exists.
C24_FileNotFoundOnlyIfNoneExists ==
  HierarchyCalled =>
    IF HierarchySystemFile = Absent /\ HierarchyUserFile = Absent
      THEN LastStdCall.ret = "FileNotFound"
      ELSE LastStdCall.ret = "Success"

\* C24, amended: load_xdg_hierarchy returns success exactly when at least
\* one of the two files exists and parses, and FileNotFound otherwise, also
\* when a file exists but does not parse.
C24_SuccessIffOneFileParsed ==
  HierarchyCalled =>
    IF HierarchySystemFile.kind = "toml" \/ HierarchyUserFile.kind = "toml"
      THEN LastStdCall.ret = "Success"
      ELSE LastStdCall.ret = "FileNotFound"

\* the system file exists but does not parse, there is no user file
C24_Witness ==
  /\ HierarchyCalled
  /\ HierarchySystemFile = Invalid
  /\ HierarchyUserFile = Absent
  /\ LastStdCall.ret = "FileNotFound"

(***************************************************************************)
(* Properties of InfrConfig                                                *)
(***************************************************************************)
\* C25: InfrConfig::Initialize is idempotent: a call on the initialized
\* object changes neither the cached value nor the registrations, so after
\* one or more calls exactly one listener of InfrConfig is registered on the
\* configuration service and every successful Reload of the service calls
\* OnConfigReload exactly once.
C25_InitializeIdempotent ==
  /\ [](infrInitCalls >= 1 =>
          /\ infr_initialized
          /\ CountOnConfigReload(m_reload_listeners) = 1
          /\ (cfgOp = "Reload" /\ cfgRet = "Success"
                 /\ cfgPre.m_reload_listeners = m_reload_listeners
               => onConfigReloads = 1))
  /\ [][infrInitCalls >= 1 /\ infrInitCalls' = infrInitCalls + 1
          => UNCHANGED <<m_config, m_reload_listeners, infr_initialized>>]_vars

\* Initialize was called three times, the file changed, and the reload that
\* followed called OnConfigReload once and brought the new port
C25_Witness ==
  /\ infrInitCalls = MaxInfrInitCalls
  /\ cfgOp = "Reload"
  /\ cfgRet = "Success"
  /\ cfgPre.m_reload_listeners = m_reload_listeners
  /\ onConfigReloads = 1
  /\ m_config.port = 9000

(***************************************************************************)
(* Properties of Terminate::Start's error paths                            *)
(***************************************************************************)
\* C32: when comm::Main::Init has returned an error, the four signals are
\* unblocked and no thread is left running or joinable: after the rollback
\* of a failed signal-wait thread creation (the stop flag is set) the event
\* processor has left its loop and has been joined, and on every other
\* failure (the mask could not be blocked, the event processor could not be
\* created) no thread was ever spawned.
C32_StartRollsBack ==
  (mainPc = "return1" /\ commInitOk = "fail") =>
    /\ ~sigmaskBlocked
    /\ ~evJoinable
    /\ ~sigJoinable
    /\ sigPc = "none"
    /\ IF m_stop_event_processor THEN evPc = "done" ELSE evPc = "none"

C32_Witness ==
  /\ mainPc = "return1"
  /\ commInitOk = "fail"
  /\ m_stop_event_processor
  /\ evPc = "done"
  /\ ~sigmaskBlocked

(***************************************************************************)
(* Properties of the Ready state of the configuration service              *)
(***************************************************************************)
\* C33: a Reload called on a service that Initialize or Load had made ready
\* never returns NotInitialized and leaves IsInitialized() true.
C33_StaysReady ==
  (cfgOp = "Reload" /\ cfgPre.m_initialized)
  => (cfgRet # "NotInitialized" /\ m_initialized)

(***************************************************************************)
(* Properties of the walk of SetOverride                                   *)
(***************************************************************************)
\* C34: every call SetOverride(path, value) leaves the typed value at the
\* full path of the tree, also when an intermediate segment of the path held
\* a value that is not a table (it is replaced by a table) or was missing.
C34_SetOverrideReplacesNonTable ==
  [][\A p \in OverridePaths, v \in OverrideValues :
       SetOverride(p, v) => ValueAt(m_data', SplitPath(p)) = TypedForm(v)]_vars

(***************************************************************************)
(* Properties of the notification of the InfrConfig listeners              *)
(***************************************************************************)
\* C35: when a Reload of the service has called OnConfigReload, the cache
\* holds the infr_main section of the reloaded tree, every listener that was
\* registered on InfrConfig has been called, in registration order, and
\* each of them read with Get() the reloaded section.
C35_ListenersSeeReloadedCache ==
  (cfgOp = "Reload" /\ onConfigReloads > 0) =>
    /\ m_config = Get(m_data, Key_infr_main)
    /\ Len(infrSeen) <= Len(m_listeners)
    /\ \A i \in 1 .. Len(infrSeen) :
         /\ infrSeen[i].listener = m_listeners[i]
         /\ infrSeen[i].saw = Get(m_data, Key_infr_main)

\* two listeners were notified of a reload that changed the port
C35_Witness ==
  /\ cfgOp = "Reload"
  /\ onConfigReloads = 1
  /\ Len(infrSeen) = MaxInfrListeners
  /\ infrSeen[1].previous.port = 8080
  /\ infrSeen[MaxInfrListeners].saw.port = 9000

(***************************************************************************)
(* Properties of the SIGHUP bridge registered by comm::Main::init          *)
(***************************************************************************)
\* C36: every ConfigReload event the event processor dispatches is
\* dispatched to a listener list that holds the bridge to Config::Reload,
\* exactly once: no SIGHUP received after Start() finds the list without it.
C36_SighupAlwaysReachesReload ==
  (evPc \in {"invoke", "relock"} /\ evEvent.type = "ConfigReload") =>
    Cardinality({i \in 1 .. Len(listeners_copy) :
                   listeners_copy[i] = "bridge"}) = 1

(***************************************************************************)
(* Properties of Terminate::~Terminate                                     *)
(***************************************************************************)
\* C37: the destructor of a started service, whether or not a signal is
\* ever delivered, eventually completes: both threads are joined.
C37_DestructorCompletes ==
  (mainPc = "dtor_ev" /\ (evJoinable \/ sigJoinable)) ~> (mainPc = "exited")

(***************************************************************************)
(* Properties of the termination semaphore                                 *)
(***************************************************************************)
\* C38: the count of the binary semaphore m_terminate never exceeds 1,
\* whatever the order of the release of the signal-wait thread, the calls
\* of TerminateApp and the release of the destructor.
C38_SemaphoreNeverOverReleased == m_terminate <= 1

(***************************************************************************)
(* Properties of the notifications to the service manager                  *)
(***************************************************************************)
\* the signal-wait thread has executed sd_notify(STOPPING=1)
StoppingSent ==
  termSignal # "none" /\ sigPc \in {"reason", "release", "done"}

\* C39: once STOPPING=1 has been sent, no step of either thread sends
\* READY=1 (the start of the signal-wait thread, the end of a dispatch of
\* the event processor) or RELOADING=1 (the receipt of a SIGHUP).
C39_NothingAfterStopping ==
  [][StoppingSent => ~(SigStart \/ SigHupNotify \/ EvReady)]_vars

(***************************************************************************)
(* Properties of the resolution of the user configuration path             *)
(***************************************************************************)
BothResolved ==
  /\ candidate_user_path # NotResolved
  /\ user_config # NotResolved
  /\ candidate_user_path.app_name = user_config.app_name

\* C40: for every value of XDG_CONFIG_HOME (unset, absolute, relative) and
\* of HOME (set, unset) the standalone load_xdg_hierarchy and the
\* service's Initialize resolve the user configuration of an application
\* to the same path.
C40_SameUserPath ==
  BothResolved => candidate_user_path.path = user_config.path

====
